---- MODULE Spec2Model ----
(***************************************************************************)
(* Column-mapping inference, row normalisation and metric calculation of   *)
(* the GOAL data visualizer.  JavaScript strings are sequences of          *)
(* one-character strings, so that toLowerCase, trim, includes and          *)
(* parseFloat are computed character by character.  JavaScript numbers are *)
(* exact rationals extended with NaN and the two infinities.               *)
(***************************************************************************)
EXTENDS Integers, Sequences, FiniteSets, Bags, TLC

VARIABLES
    headers,        \* autoDetectColumns: the header list passed in
    mapping,        \* autoDetectColumns: the mapping built so far
    usedHeaders,    \* autoDetectColumns: headers already claimed
    fieldIdx,       \* autoDetectColumns: number of canonical fields processed
    rawData,        \* normalizeData: the raw rows passed in
    colMapping,     \* normalizeData: the column mapping passed in
    rowIdx,         \* normalizeData: number of raw rows processed
    normalizedRow,  \* normalizeData: result of the latest normalizeRow call
    normalized,     \* normalizeData: the rows pushed so far
    metricRows,     \* calculateAllMetrics: the normalised rows passed in
    metricsResult,  \* calculateAllMetrics: the {global, entities} returned
    metricsPc,      \* calculateAllMetrics: "input" before the call, "done" after
    fnCall,         \* transformations: the function called and its arguments
    fnResult,       \* transformations: the value returned, Pending before
    uploadedFiles,  \* DataProvider: the uploaded files, in upload order
    multiFileMode,  \* DataProvider: "null", "merge" or "compare"
    parsing,        \* CsvUploader: the files whose Papa.parse has not completed
    nextFileId,     \* generateFileId: the number of ids handed out
    warned,         \* console.warn of addFile has been written
    location,       \* wouter: the path of the page shown
    scanData,       \* validateWithProgress: the rows passed to the scans
    engineDates,    \* the strings the engine's own Date parser accepts
    scans,          \* validateWithProgress: the locals of each call
    resolutions,    \* the calls whose promise has resolved, in order
    deliveries      \* the calls whose summary has been stored, in order

detectVars == <<headers, mapping, usedHeaders, fieldIdx>>

normVars == <<rawData, colMapping, rowIdx, normalizedRow, normalized>>

metricVars == <<metricRows, metricsResult, metricsPc>>

transformVars == <<fnCall, fnResult>>

storeVars == <<uploadedFiles, multiFileMode, parsing, nextFileId, warned, location>>

scanVars == <<scanData, engineDates, scans, resolutions, deliveries>>

vars == <<detectVars, normVars, metricVars, transformVars, storeVars, scanVars>>

----------------------------------------------------------------------------
(* Each component is run on its own: the other two stay as constructed. *)

NoMapping == [f \in {} |-> <<>>]

\* the value null returned for a row that cannot be normalised
NullRow == [isNull |-> TRUE]

NoResult == [global |-> <<>>, entities |-> <<>>]

NormIdle ==
    /\ rawData = <<>>
    /\ colMapping = NoMapping
    /\ rowIdx = 0
    /\ normalizedRow = NullRow
    /\ normalized = <<>>

MetricsIdle ==
    /\ metricRows = <<>>
    /\ metricsResult = NoResult
    /\ metricsPc = "input"

\* no function of the transformation layer has been called
NoCall == [fn |-> "none"]

Pending == [k |-> "pending"]

TransformIdle ==
    /\ fnCall = NoCall
    /\ fnResult = Pending

StoreIdle ==
    /\ uploadedFiles = <<>>
    /\ multiFileMode = "null"
    /\ parsing = EmptyBag
    /\ nextFileId = 0
    /\ warned = FALSE
    /\ location = "/"

\* no validation scan has been requested
ScanIdle ==
    /\ scanData = <<>>
    /\ engineDates = {}
    /\ scans = <<>>
    /\ resolutions = <<>>
    /\ deliveries = <<>>

----------------------------------------------------------------------------
(* Strings *)

UpperChars == <<"A","B","C","D","E","F","G","H","I","J","K","L","M",
                "N","O","P","Q","R","S","T","U","V","W","X","Y","Z">>

LowerChars == <<"a","b","c","d","e","f","g","h","i","j","k","l","m",
                "n","o","p","q","r","s","t","u","v","w","x","y","z">>

Whitespace == {" ", "\t", "\n", "\r"}

ToLowerChar(c) ==
    IF \E i \in 1..Len(UpperChars) : UpperChars[i] = c
    THEN LowerChars[CHOOSE i \in 1..Len(UpperChars) : UpperChars[i] = c]
    ELSE c

\* String.prototype.toLowerCase
ToLowerCase(s) == [i \in 1..Len(s) |-> ToLowerChar(s[i])]

\* String.prototype.trim
Trim(s) ==
    LET keep == {i \in 1..Len(s) : s[i] \notin Whitespace}
    IN  IF keep = {} THEN <<>>
        ELSE LET lo == CHOOSE i \in keep : \A j \in keep : i <= j
                 hi == CHOOSE i \in keep : \A j \in keep : i >= j
             IN  SubSeq(s, lo, hi)

\* String.prototype.includes
Includes(s, p) ==
    \E i \in 0..(Len(s) - Len(p)) : SubSeq(s, i + 1, i + Len(p)) = p

\* Array.prototype.some over a list of patterns
SomeIncluded(patterns, s) ==
    \E k \in 1..Len(patterns) : Includes(s, patterns[k])

----------------------------------------------------------------------------
(* Column Mapping Resolver *)

\* Object.keys(COLUMN_PATTERNS): the canonical fields in declaration order
FieldOrder ==
    <<"entity", "spend", "leads", "quotes", "sales", "clicks", "impressions",
      "contacted", "calls", "policyItems", "premium", "date", "quoteCpa",
      "policyCpa">>

Fields == {FieldOrder[i] : i \in 1..Len(FieldOrder)}

COLUMN_PATTERNS ==
    [entity |-> <<<<"c","a","m","p","a","i","g","n">>,
                  <<"s","o","u","r","c","e">>, <<"v","e","n","d","o","r">>,
                  <<"c","h","a","n","n","e","l">>,
                  <<"e","n","t","i","t","y">>,
                  <<"n","a","m","e">>, <<"p","r","o","v","i","d","e","r">>,
                  <<"c","o","m","p","e","t","i","t","o","r">>>>,
     spend |-> <<<<"t","o","t","a","l"," ","s","p","e","n","d">>,
                 <<"a","d"," ","s","p","e","n","d">>,
                 <<"a","d","v","e","r","t","i","s","i","n","g"," ","s","p","e","n","d">>,
                 <<"s","p","e","n","d">>,
                 <<"t","o","t","a","l"," ","c","o","s","t">>,
                 <<"c","o","s","t">>, <<"b","u","d","g","e","t">>>>,
     leads |-> <<<<"t","o","t","a","l"," ","l","e","a","d","s">>,
                 <<"l","e","a","d"," ","c","o","u","n","t">>,
                 <<"n","u","m","b","e","r"," ","o","f"," ","l","e","a","d","s">>,
                 <<"l","e","a","d","s">>>>,
     quotes |-> <<<<"t","o","t","a","l"," ","q","u","o","t","e","s">>,
                  <<"q","u","o","t","e"," ","c","o","u","n","t">>,
                  <<"n","u","m","b","e","r"," ","o","f"," ","q","u","o","t","e","s">>,
                  <<"q","u","o","t","e","s">>, <<"q","u","o","t","e">>,
                  <<"q","u","o","t","e","d">>>>,
     sales |-> <<<<"t","o","t","a","l"," ","s","a","l","e","s">>,
                 <<"p","o","l","i","c","y"," ","c","o","u","n","t">>,
                 <<"b","o","u","n","d"," ","h","h">>,
                 <<"b","o","u","n","d"," ","h","o","u","s","e","h","o","l","d","s">>,
                 <<"s","a","l","e","s">>, <<"p","o","l","i","c","i","e","s">>,
                 <<"p","o","l","i","c","y">>,
                 <<"b","i","n","d","s">>, <<"c","l","o","s","e","d">>,
                 <<"b","o","u","n","d">>, <<"b","o","u","n","d","s">>,
                 <<"h","o","u","s","e","h","o","l","d","s">>,
                 <<"h","h">>>>,
     clicks |-> <<<<"t","o","t","a","l"," ","c","l","i","c","k","s">>,
                  <<"c","l","i","c","k"," ","c","o","u","n","t">>,
                  <<"n","u","m","b","e","r"," ","o","f"," ","c","l","i","c","k","s">>,
                  <<"c","l","i","c","k","s">>>>,
     impressions |-> <<<<"t","o","t","a","l"," ","i","m","p","r","e","s","s","i","o","n","s">>,
                       <<"i","m","p","r","e","s","s","i","o","n"," ","c","o","u","n","t">>,
                       <<"i","m","p","r","e","s","s","i","o","n","s">>,
                       <<"i","m","p","r">>, <<"v","i","e","w","s">>>>,
     contacted |-> <<<<"l","e","a","d","s"," ","c","o","n","t","a","c","t","e","d">>,
                     <<"c","o","n","t","a","c","t"," ","c","o","u","n","t">>,
                     <<"c","o","n","t","a","c","t","s"," ","m","a","d","e">>,
                     <<"c","o","n","t","a","c","t","e","d">>>>,
     calls |-> <<<<"i","n","b","o","u","n","d"," ","c","a","l","l","s">>,
                 <<"p","h","o","n","e"," ","c","a","l","l","s">>,
                 <<"c","a","l","l"," ","c","o","u","n","t">>,
                 <<"t","o","t","a","l"," ","c","a","l","l","s">>,
                 <<"c","a","l","l","s">>>>,
     policyItems |-> <<<<"p","o","l","i","c","y"," ","i","t","e","m","s"," ","s","o","l","d">>,
                       <<"p","o","l","i","c","y"," ","i","t","e","m","s">>,
                       <<"i","t","e","m","s"," ","s","o","l","d">>,
                       <<"p","o","l","i","c","i","e","s"," ","s","o","l","d">>,
                       <<"i","t","e","m"," ","c","o","u","n","t">>>>,
     premium |-> <<<<"t","o","t","a","l"," ","p","r","e","m","i","u","m">>,
                   <<"p","r","e","m","i","u","m"," ","g","e","n","e","r","a","t","e","d">>,
                   <<"p","r","e","m","i","u","m">>,
                   <<"p","o","l","i","c","y"," ","r","e","v">>,
                   <<"p","o","l","i","c","y"," ","r","e","v","e","n","u","e">>,
                   <<"t","o","t","a","l"," ","r","e","v","e","n","u","e">>,
                   <<"r","e","v","e","n","u","e">>>>,
     date |-> <<<<"d","a","t","e">>, <<"d","a","y">>, <<"w","e","e","k">>,
                <<"m","o","n","t","h">>, <<"p","e","r","i","o","d">>,
                <<"t","i","m","e">>,
                <<"t","i","m","e","s","t","a","m","p">>>>,
     quoteCpa |-> <<<<"q","u","o","t","e"," ","c","p","a">>, <<"c","p","q">>,
                    <<"c","o","s","t"," ","p","e","r"," ","q","u","o","t","e">>>>,
     policyCpa |-> <<<<"p","o","l","i","c","y"," ","c","p","a">>,
                     <<"c","p","a">>,
                     <<"c","o","s","t"," ","p","e","r"," ","a","c","q","u","i","s","i","t","i","o","n">>,
                     <<"c","o","s","t"," ","p","e","r"," ","s","a","l","e">>,
                     <<"c","o","s","t"," ","p","e","r"," ","p","o","l","i","c","y">>>>]

EXCLUDE_PATTERNS ==
    <<<<"c","v","r">>, <<"c","p","l">>, <<"c","p","c">>, <<"c","p","i">>,
      <<"r","a","t","e">>, <<"r","a","t","i","o">>, <<"%">>,
      <<"p","e","r","c","e","n","t">>,
      <<"c","o","n","v","e","r","s","i","o","n">>>>

CPA_PATTERNS == <<<<"c","p","a">>, <<"c","p","q">>,
                  <<"c","o","s","t"," ","p","e","r">>>>

\* The variant that forgets the second exclusion layer (CPA markers).
shouldExcludeHeader_noCpaLayer(header, field) ==
    LET lower == ToLowerCase(header)
    IN  IF field = "quoteCpa" \/ field = "policyCpa" THEN FALSE
        ELSE SomeIncluded(EXCLUDE_PATTERNS, lower)

\* The variant that applies the exclusion to the two CPA fields as well.
shouldExcludeHeader_noCpaExemption(header, field) ==
    LET lower == ToLowerCase(header)
    IN  IF SomeIncluded(CPA_PATTERNS, lower) THEN TRUE
        ELSE SomeIncluded(EXCLUDE_PATTERNS, lower)

shouldExcludeHeader(header, field) ==
    LET lower == ToLowerCase(header)
    IN  IF field = "quoteCpa" \/ field = "policyCpa" THEN FALSE
        ELSE IF SomeIncluded(CPA_PATTERNS, lower) THEN TRUE
        ELSE SomeIncluded(EXCLUDE_PATTERNS, lower)

\* The variant that never consults the set of claimed headers.
usedHeadersHas_never(used, h) == FALSE

\* usedHeaders.has(h)
usedHeadersHas(used, h) == h \in used

\* Headers the resolver is run on (mixed case, padding, derived-metric and
\* cost-per-acquisition markers, and names that fit more than one field)
HeaderPool ==
    {<<"C","a","m","p","a","i","g","n">>, <<"S","p","e","n","d">>,
     <<"S","a","l","e","s">>, <<"L","e","a","d","s">>, <<"C","P","A">>,
     <<" ","C","o","s","t"," ","P","e","r"," ","S","a","l","e"," ">>,
     <<"Q","u","o","t","e"," ","C","P","A">>,
     <<"Q","u","o","t","e"," ","R","a","t","e"," ","%">>,
     <<"C","o","s","t"," ","P","e","r"," ","L","e","a","d">>,
     <<"P","o","l","i","c","i","e","s"," ","S","o","l","d">>,
     <<"Q","u","o","t","e">>,
     <<"T","o","t","a","l"," ","Q","u","o","t","e","s"," ","S","e","n","t">>}

\* the fields a ColumnMapping may leave out, in declaration order
OptionalFields ==
    <<"clicks", "impressions", "contacted", "calls", "policyItems", "premium",
      "date", "quoteCpa", "policyCpa">>

\* A file with the five required columns and one more column, named by a
\* candidate pattern of an optional field
RequiredHeaders == <<<<"C","a","m","p","a","i","g","n">>,
                     <<"S","p","e","n","d">>, <<"L","e","a","d","s">>,
                     <<"Q","u","o","t","e","s">>, <<"S","a","l","e","s">>>>

CandidateHeaderLists ==
    UNION {{Append(RequiredHeaders, COLUMN_PATTERNS[OptionalFields[i]][k]) :
               k \in 1..Len(COLUMN_PATTERNS[OptionalFields[i]])} :
           i \in 1..Len(OptionalFields)}

\* every header the resolver is given: the pool, the candidate lists and
\* the columns of the uploaded files
KnownHeaders ==
    HeaderPool
    \cup UNION {{l[n] : n \in 1..Len(l)} : l \in CandidateHeaderLists}
    \cup {<<"S","o","u","r","c","e">>}

\* Memo tables over the known headers: the three tests of the findIndex
\* callbacks, evaluated once per header instead of once per state.
NormalizedHeader == [h \in KnownHeaders |-> Trim(ToLowerCase(h))]

ExcludedFor == [h \in KnownHeaders |-> [f \in Fields |-> shouldExcludeHeader(h, f)]]

EqualsPattern ==
    [h \in KnownHeaders |-> [f \in Fields |->
        [k \in 1..Len(COLUMN_PATTERNS[f]) |->
            NormalizedHeader[h] = COLUMN_PATTERNS[f][k]]]]

IncludesPattern ==
    [h \in KnownHeaders |-> [f \in Fields |->
        [k \in 1..Len(COLUMN_PATTERNS[f]) |->
            Includes(NormalizedHeader[h], COLUMN_PATTERNS[f][k])]]]

\* The callback of the first findIndex, for the k-th pattern of the field:
\* exact match on the trimmed, lower-cased header
ExactCandidate(h, k, used, field) ==
    /\ EqualsPattern[h][field][k]
    /\ ~usedHeadersHas(used, h)
    /\ ~ExcludedFor[h][field]

\* The callback of the second findIndex: substring match
ContainsCandidate(h, k, used, field) ==
    /\ IncludesPattern[h][field][k]
    /\ ~usedHeadersHas(used, h)
    /\ ~ExcludedFor[h][field]

\* Array.prototype.findIndex, 1-based; 0 stands for -1
FindIndex(hs, Test(_)) ==
    IF \E i \in 1..Len(hs) : Test(hs[i])
    THEN CHOOSE i \in 1..Len(hs) : Test(hs[i]) /\ \A j \in 1..(i - 1) : ~Test(hs[j])
    ELSE 0

\* The first pattern, in list order, for which findIndex succeeds, with the
\* index found; 0 when no pattern of the pass matches any header.
ExactMatchIndex(hs, used, field) ==
    LET patterns == COLUMN_PATTERNS[field]
        Idx(k) == LET Test(h) == ExactCandidate(h, k, used, field)
                  IN  FindIndex(hs, Test)
        hits == {k \in 1..Len(patterns) : Idx(k) # 0}
    IN  IF hits = {} THEN 0
        ELSE Idx(CHOOSE k \in hits : \A j \in hits : k <= j)

ContainsMatchIndex(hs, used, field) ==
    LET patterns == COLUMN_PATTERNS[field]
        Idx(k) == LET Test(h) == ContainsCandidate(h, k, used, field)
                  IN  FindIndex(hs, Test)
        hits == {k \in 1..Len(patterns) : Idx(k) # 0}
    IN  IF hits = {} THEN 0
        ELSE Idx(CHOOSE k \in hits : \A j \in hits : k <= j)

\* The header the forEach callback assigns to `field`: the exact pass first,
\* the contains pass only when the exact pass found nothing; 0 when neither.
\* The variant that runs the contains pass before the exact pass.
DetectIndex_containsFirst(hs, used, field) ==
    LET c == ContainsMatchIndex(hs, used, field)
    IN  IF c # 0 THEN c ELSE ExactMatchIndex(hs, used, field)

DetectIndex(hs, used, field) ==
    LET e == ExactMatchIndex(hs, used, field)
    IN  IF e # 0 THEN e ELSE ContainsMatchIndex(hs, used, field)

\* The forEach over the canonical fields from the i-th field on
RECURSIVE DetectFrom(_, _, _, _)
DetectFrom(hs, i, m, used) ==
    IF i > Len(FieldOrder) THEN m
    ELSE LET index == DetectIndex(hs, used, FieldOrder[i])
         IN  IF index # 0
             THEN DetectFrom(hs, i + 1, m @@ (FieldOrder[i] :> hs[index]),
                             used \cup {hs[index]})
             ELSE DetectFrom(hs, i + 1, m, used)

autoDetectColumns(hs) == DetectFrom(hs, 1, NoMapping, {})

MaxHeaders == 3

HeaderLists ==
    UNION {[1..n -> HeaderPool] : n \in 0..MaxHeaders} \cup CandidateHeaderLists

\* The resolver before a run on no headers
DetectIdle ==
    /\ headers = <<>>
    /\ mapping = NoMapping
    /\ usedHeaders = {}
    /\ fieldIdx = 0

DetectInit ==
    /\ headers \in HeaderLists
    /\ mapping = NoMapping
    /\ usedHeaders = {}
    /\ fieldIdx = 0
    /\ NormIdle
    /\ MetricsIdle
    /\ TransformIdle
    /\ StoreIdle
    /\ ScanIdle

\* One iteration of the forEach over the canonical fields
DetectField ==
    /\ fieldIdx < Len(FieldOrder)
    /\ LET field == FieldOrder[fieldIdx + 1]
           index == DetectIndex(headers, usedHeaders, field)
       IN  IF index # 0
           THEN /\ mapping' = mapping @@ (field :> headers[index])
                /\ usedHeaders' = usedHeaders \cup {headers[index]}
           ELSE UNCHANGED <<mapping, usedHeaders>>
    /\ fieldIdx' = fieldIdx + 1
    /\ UNCHANGED <<headers, normVars, metricVars, transformVars, storeVars, scanVars>>

DetectDone == fieldIdx = Len(FieldOrder)

DetectNext == DetectField

SpecDetect == DetectInit /\ [][DetectNext]_vars

----------------------------------------------------------------------------
(* Claims about the Column Mapping Resolver *)

Mapped(f) == f \in DOMAIN mapping

CpaFields == {"quoteCpa", "policyCpa"}

DerivedMarkers ==
    {<<"c","v","r">>, <<"c","p","l">>, <<"c","p","c">>, <<"c","p","i">>,
     <<"r","a","t","e">>, <<"r","a","t","i","o">>, <<"%">>,
     <<"p","e","r","c","e","n","t">>,
     <<"c","o","n","v","e","r","s","i","o","n">>}

CpaMarkers == {<<"c","p","a">>, <<"c","p","q">>,
               <<"c","o","s","t"," ","p","e","r">>}

HasDerivedMarker ==
    [h \in KnownHeaders |-> \E m \in DerivedMarkers : Includes(ToLowerCase(h), m)]

HasCpaMarker ==
    [h \in KnownHeaders |-> \E m \in CpaMarkers : Includes(ToLowerCase(h), m)]

HasMarker(h) == HasDerivedMarker[h] \/ HasCpaMarker[h]

\* C1: a header containing a derived-metric marker or a cost-per-acquisition
\* marker is never mapped to a canonical field other than quoteCpa or
\* policyCpa.
C1_MarkedHeadersOnlyForCpaFields ==
    \A f \in DOMAIN mapping : HasMarker(mapping[f]) => f \in CpaFields

\* A finished run over headers that carry markers, in which a raw field was
\* mapped and every marked header is either unclaimed or held by a CPA field.
C1_Witness ==
    /\ DetectDone
    /\ \E i \in 1..Len(headers) :
          HasDerivedMarker[headers[i]]
    /\ \E i \in 1..Len(headers) :
          /\ HasCpaMarker[headers[i]]
          /\ Mapped("policyCpa") /\ mapping["policyCpa"] = headers[i]
    /\ \E f \in DOMAIN mapping : f \notin CpaFields

\* C2: no two distinct canonical fields are mapped to the same header string.
C2_NoDoubleMapping ==
    \A f, g \in DOMAIN mapping : f # g => mapping[f] # mapping[g]

\* A finished run in which a header that fits two fields ("Quote CPA" fits
\* quoteCpa exactly and policyCpa by substring) went to one of them only,
\* and the other field found nothing.
C2_Witness ==
    /\ DetectDone
    /\ Mapped("quoteCpa") /\ mapping["quoteCpa"] = <<"Q","u","o","t","e"," ","C","P","A">>
    /\ ~Mapped("policyCpa")
    /\ Cardinality(DOMAIN mapping) >= 2

EqualsPatternOf(h, field) ==
    \E k \in 1..Len(COLUMN_PATTERNS[field]) : EqualsPattern[h][field][k]

OverrideKept(field) ==
    (\E i \in 1..Len(headers) : EqualsPatternOf(headers[i], field)) =>
        /\ Mapped(field)
        /\ EqualsPatternOf(mapping[field], field)
        /\ \A f \in DOMAIN mapping :
              f \notin CpaFields => ~EqualsPatternOf(mapping[f], field)

\* C3: once the resolver has finished, a header list holding a header equal
\* (case-insensitively, trimmed) to a policyCpa pattern has policyCpa mapped
\* to such a header and no raw field mapped to one; likewise quoteCpa.
C3_OverrideFieldsKeepCpaHeaders ==
    DetectDone => OverrideKept("policyCpa") /\ OverrideKept("quoteCpa")

\* "CPA" next to Sales and Spend: policyCpa takes "CPA", the raw fields do not.
C3_Witness ==
    /\ DetectDone
    /\ headers = <<<<"S","a","l","e","s">>, <<"S","p","e","n","d">>,
                   <<"C","P","A">>>>
    /\ mapping = [sales |-> <<"S","a","l","e","s">>, spend |-> <<"S","p","e","n","d">>, policyCpa |-> <<"C","P","A">>]

----------------------------------------------------------------------------
(* JavaScript numbers: k = "fin" is the rational n/d in lowest terms with   *)
(* d > 0; "nan", "inf" and "ninf" are NaN, +Infinity and -Infinity.         *)
(* Rounding to binary64 and the sign of zero are not represented.           *)

Abs(x) == IF x < 0 THEN -x ELSE x

RECURSIVE Gcd(_, _)
Gcd(a, b) == IF b = 0 THEN a ELSE Gcd(b, a % b)

RECURSIVE Pow10(_)
Pow10(e) == IF e = 0 THEN 1 ELSE 10 * Pow10(e - 1)

\* the rational n/d, d # 0, in lowest terms
Rat(n, d) ==
    LET s == IF d < 0 THEN -1 ELSE 1
        g == Gcd(Abs(n), Abs(d))
    IN  [k |-> "fin", n |-> (s * n) \div g, d |-> Abs(d) \div g]

Int2Num(i) == [k |-> "fin", n |-> i, d |-> 1]
Zero == Int2Num(0)
NaN == [k |-> "nan", n |-> 0, d |-> 1]
PosInf == [k |-> "inf", n |-> 0, d |-> 1]
NegInf == [k |-> "ninf", n |-> 0, d |-> 1]

\* the value `undefined` where a number may stand
Undefined == [k |-> "undefined", n |-> 0, d |-> 1]

IsNaN(a) == a.k = "nan"
IsFinite(a) == a.k \in {"fin", "dbl"}
IsNumber(a) == a.k \in {"fin", "dbl", "nan", "inf", "ninf"}

Sign(a) ==
    IF a.k = "inf" THEN 1 ELSE IF a.k = "ninf" THEN -1
    ELSE IF a.n > 0 THEN 1 ELSE IF a.n < 0 THEN -1 ELSE 0

Signed(s) == IF s < 0 THEN NegInf ELSE PosInf

----------------------------------------------------------------------------
(* Double precision.  A number of kind "fin" is a rational n/d with small  *)
(* n and d; when d is a power of two it is a double and sums of such       *)
(* numbers are exact.  Every other finite double has kind "dbl": n is its   *)
(* sign, e the exponent of its leading bit and m its 53 mantissa bits,      *)
(* leading bit first.  A "fin" number whose d is not a power of two stands  *)
(* for the double nearest to n/d, as a decimal literal or a quotient does.  *)
(* Intermediate values are named by binding them (v \in {value}), so that   *)
(* each is computed once.                                                   *)

MantissaBits == 53

RECURSIVE IsPow2(_)
IsPow2(d) == d = 1 \/ (d % 2 = 0 /\ IsPow2(d \div 2))

RECURSIVE Pow2(_)
Pow2(e) == IF e = 0 THEN 1 ELSE 2 * Pow2(e - 1)

Dyadic(a) == a.k = "fin" /\ IsPow2(a.d)

Zeros(n) == [i \in 1..n |-> 0]

ZeroBits == Zeros(MantissaBits)

\* sign, exponent and mantissa of the number 0
ZeroParts == [s |-> 0, e |-> 0, m |-> ZeroBits]

\* the exponent of the leading bit of n/d, n and d positive
RECURSIVE ExponentUp(_, _, _)
ExponentUp(n, d, e) ==
    IF (n \div 2) \div Pow2(e) >= d THEN ExponentUp(n, d, e + 1) ELSE e

RECURSIVE ExponentDown(_, _, _)
ExponentDown(n, d, e) ==
    IF n * Pow2(e) >= d THEN -e ELSE ExponentDown(n, d, e + 1)

LeadingExponent(n, d) ==
    IF n >= d THEN ExponentUp(n, d, 0) ELSE ExponentDown(n, d, 1)

\* the last k bits of the integer v
ChunkBits(v, k) == [i \in 1..k |-> (v \div Pow2(k - i)) % 2]

\* the bits of r/d after the point, r < d, by long division nine bits at a
\* time, and a last bit that is 1 when a remainder is left
RECURSIVE LongDivision(_, _, _)
LongDivision(r, d, chunks) ==
    IF chunks = 0 THEN <<IF r > 0 THEN 1 ELSE 0>>
    ELSE ChunkBits((r * 512) \div d, 9) \o
         LongDivision((r * 512) % d, d, chunks - 1)

\* the positive rational n/d as an exponent and bits: the leading 1, 54
\* bits and a remainder bit
RatToBig(n, d) ==
    CHOOSE big \in
        {[e |-> e,
          b |-> IF e >= 0
                THEN <<1>> \o LongDivision(n - d * Pow2(e), d * Pow2(e), 6)
                ELSE <<1>> \o LongDivision(n * Pow2(-e) - d, d, 6)] :
            e \in {LeadingExponent(n, d)}} : TRUE

\* the bits from the first 1 on; the bits are not all 0
StripZeros(big) ==
    CHOOSE stripped \in
        {[e |-> big.e - (first - 1), b |-> SubSeq(big.b, first, Len(big.b))] :
            first \in {i \in 1..Len(big.b) :
                          big.b[i] = 1 /\ \A j \in 1..(i - 1) : big.b[j] = 0}} : TRUE

\* the carry out of place i + 1 of x + y + carryIn: some later place makes
\* a carry, or the carry comes in, and every place between passes it on
CarryInto(x, y, i, carryIn) ==
    IF \E j \in (i + 1)..(Len(x) + 1) :
           /\ IF j > Len(x) THEN carryIn = 1 ELSE x[j] + y[j] = 2
           /\ \A k \in (i + 1)..(j - 1) : x[k] + y[k] = 1
    THEN 1 ELSE 0

\* x + y + carryIn for bit tuples of one length; the result is one bit
\* longer
AddBits(x, y, carryIn) ==
    [k \in 1..(Len(x) + 1) |->
        ((IF k = 1 THEN 0 ELSE x[k - 1] + y[k - 1])
            + CarryInto(x, y, k - 1, carryIn)) % 2]

\* x + y, or x - y as x + ~y + 1 without the carry out (x >= y), for bit
\* tuples of one length; the result is one bit longer
CombineBits(x, y, subtract) ==
    IF subtract
    THEN <<0>> \o Tail(AddBits(x, [i \in 1..Len(y) |-> 1 - y[i]], 1))
    ELSE AddBits(x, y, 0)

\* the first 53 bits, filled up with 0
Kept(b) == [i \in 1..MantissaBits |-> IF i <= Len(b) THEN b[i] ELSE 0]

\* round to nearest, ties to even: above the half, or at the half with an
\* odd last bit kept
RoundsUp(b, last) ==
    /\ Len(b) > MantissaBits
    /\ b[MantissaBits + 1] = 1
    /\ (last = 1 \/ \E i \in (MantissaBits + 2)..Len(b) : b[i] = 1)

\* the mantissa after adding one in the last place
Carried(s, e, sum) ==
    IF sum[1] = 1 THEN [s |-> s, e |-> e + 1, m |-> SubSeq(sum, 1, MantissaBits)]
    ELSE [s |-> s, e |-> e, m |-> Tail(sum)]

RoundStripped(s, big) ==
    CHOOSE r \in
        {IF RoundsUp(big.b, kept[MantissaBits])
         THEN CHOOSE c \in {Carried(s, big.e, sum) :
                               sum \in {AddBits(kept, ZeroBits, 1)}} : TRUE
         ELSE [s |-> s, e |-> big.e, m |-> kept] :
            kept \in {Kept(big.b)}} : TRUE

\* the double with sign s nearest to the bits of big, which are not all 0
RoundBig(s, big) ==
    CHOOSE r \in {RoundStripped(s, stripped) :
                     stripped \in {StripZeros(v) : v \in {big}}} : TRUE

\* the position of the last 1 of a mantissa
LastOne(m) ==
    CHOOSE i \in 1..Len(m) : m[i] = 1 /\ \A j \in (i + 1)..Len(m) : m[j] = 0

\* the integer whose bits are the first s bits of m
RECURSIVE BitsValue(_, _)
BitsValue(m, s) == IF s = 0 THEN 0 ELSE 2 * BitsValue(m, s - 1) + m[s]

\* the number with sign, exponent and mantissa r whose last 1 is at place
\* last: of kind "fin" when it is a small rational, of kind "dbl" otherwise
Shaped(r, last) ==
    IF last <= 24 /\ r.e - last + 1 >= 0 /\ r.e <= 24
    THEN [k |-> "fin", n |-> r.s * BitsValue(r.m, last) * Pow2(r.e - last + 1),
          d |-> 1]
    ELSE IF last <= 24 /\ r.e - last + 1 < 0 /\ r.e - last + 1 >= -24
    THEN [k |-> "fin", n |-> r.s * BitsValue(r.m, last),
          d |-> Pow2(last - 1 - r.e)]
    ELSE [k |-> "dbl", n |-> r.s, d |-> 1, e |-> r.e, m |-> r.m]

Canonical(parts) ==
    CHOOSE c \in {IF r.s = 0 THEN Zero ELSE Shaped(r, LastOne(r.m)) :
                     r \in {parts}} : TRUE

\* sign, exponent and mantissa of a finite number
Magnitude(a) ==
    IF a.k = "dbl" THEN [s |-> a.n, e |-> a.e, m |-> a.m]
    ELSE IF a.n = 0 THEN ZeroParts
    ELSE RoundBig(Sign(a), RatToBig(IF a.n < 0 THEN -a.n ELSE a.n, a.d))

\* the order of bit tuples of one length
BitsLess(x, y) ==
    \E i \in 1..Len(x) : x[i] < y[i] /\ \A k \in 1..(i - 1) : x[k] = y[k]

MagnitudeLess(x, y) == x.e < y.e \/ (x.e = y.e /\ BitsLess(x.m, y.m))

\* x + y for x and y other than 0 with |x| >= |y|, rounded; a y below an
\* eighth of the last place of x leaves x
CombineMagnitudes(x, y) ==
    IF x.e - y.e > MantissaBits + 3 THEN x
    ELSE CHOOSE r \in
            {RoundBig(x.s, [e |-> x.e + 1, b |-> CombineBits(X, Y, x.s # y.s)]) :
                X \in {x.m \o Zeros(x.e - y.e)},
                Y \in {Zeros(x.e - y.e) \o y.m}} : TRUE

\* x + y from signs, exponents and mantissas
SumOfParts(x, y) ==
    IF x.s = 0 THEN y
    ELSE IF y.s = 0 THEN x
    ELSE IF x.s # y.s /\ x.e = y.e /\ x.m = y.m THEN ZeroParts
    ELSE CHOOSE r \in
            {CombineMagnitudes(o[1], o[2]) :
                o \in {IF MagnitudeLess(x, y) THEN <<y, x>> ELSE <<x, y>>}} : TRUE

\* a + b in double precision, for finite a and b
DoubleAdd(a, b) ==
    CHOOSE r \in
        {Canonical(SumOfParts(parts[1], parts[2])) :
            parts \in {[i \in 1..2 |-> Magnitude(<<a, b>>[i])]}} : TRUE

\* the bits of m, 96 of them, divided by the positive integer q, sixteen
\* bits at a time, and a last bit that is 1 when a remainder is left
RECURSIVE DivideBits(_, _, _, _)
DivideBits(m, q, c, r) ==
    IF c > 6 THEN <<IF r > 0 THEN 1 ELSE 0>>
    ELSE ChunkBits((r * 65536 + BitsValue(SubSeq(m, 16 * c - 15, 16 * c), 16))
                      \div q, 16) \o
         DivideBits(m, q, c + 1,
                    (r * 65536 + BitsValue(SubSeq(m, 16 * c - 15, 16 * c), 16)) % q)

\* a / b in double precision, for a of kind "dbl" and b a power-of-two
\* fraction other than 0
DoubleDivide(a, b) ==
    Canonical(RoundBig(a.n * Sign(b),
                       [e |-> a.e + LeadingExponent(b.d, 1),
                        b |-> DivideBits(a.m \o Zeros(96 - MantissaBits),
                                         IF b.n < 0 THEN -b.n ELSE b.n, 1, 0)]))

\* The product of two numbers one of which has kind "dbl", and the quotient
\* by a number of kind "dbl", are outside the model; evaluating one stops
\* the evaluation.
OutsideModel == CASE FALSE -> NaN

\* a + b for operands that have been computed
SumOf(a, b) ==
    IF IsNaN(a) \/ IsNaN(b) THEN NaN
    ELSE IF Dyadic(a) /\ Dyadic(b) THEN Rat(a.n * b.d + b.n * a.d, a.d * b.d)
    ELSE IF IsFinite(a) /\ IsFinite(b) THEN DoubleAdd(a, b)
    ELSE IF IsFinite(a) THEN b
    ELSE IF IsFinite(b) THEN a
    ELSE IF a.k = b.k THEN a ELSE NaN

\* a + b
NumAdd(a, b) == CHOOSE r \in {SumOf(x, y) : x \in {a}, y \in {b}} : TRUE

\* a * b
NumMul(a, b) ==
    IF IsNaN(a) \/ IsNaN(b) THEN NaN
    ELSE IF a.k = "fin" /\ b.k = "fin" THEN Rat(a.n * b.n, a.d * b.d)
    ELSE IF IsFinite(a) /\ IsFinite(b)
         THEN IF Sign(a) = 0 \/ Sign(b) = 0 THEN Zero ELSE OutsideModel
    ELSE IF Sign(a) = 0 \/ Sign(b) = 0 THEN NaN
    ELSE Signed(Sign(a) * Sign(b))

\* a / b for operands that have been computed
QuotientOf(a, b) ==
    IF IsNaN(a) \/ IsNaN(b) THEN NaN
    ELSE IF a.k = "fin" /\ b.k = "fin"
         THEN IF b.n # 0 THEN Rat(a.n * b.d, a.d * b.n)
              ELSE IF a.n = 0 THEN NaN ELSE Signed(Sign(a))
    ELSE IF a.k = "dbl" /\ Dyadic(b)
         THEN IF b.n # 0 THEN DoubleDivide(a, b) ELSE Signed(Sign(a))
    ELSE IF IsFinite(a) /\ IsFinite(b)
         THEN IF Sign(a) = 0 THEN Zero ELSE OutsideModel
    ELSE IF IsFinite(a) THEN Zero
    ELSE IF IsFinite(b) THEN Signed(Sign(a) * (IF Sign(b) < 0 THEN -1 ELSE 1))
    ELSE NaN

\* a / b
NumDiv(a, b) == CHOOSE r \in {QuotientOf(x, y) : x \in {a}, y \in {b}} : TRUE

\* a > 0
NumPositive(a) == IsNumber(a) /\ ~IsNaN(a) /\ Sign(a) > 0

\* a === 0
NumIsZero(a) == a.k = "fin" /\ a.n = 0

----------------------------------------------------------------------------
(* Raw cell values: string | number | boolean | null, and undefined for a   *)
(* key the row does not have.                                               *)

StrCell(s) == [t |-> "string", s |-> s, n |-> Zero, b |-> FALSE]
NumCell(n) == [t |-> "number", s |-> <<>>, n |-> n, b |-> FALSE]
BoolCell(b) == [t |-> "boolean", s |-> <<>>, n |-> Zero, b |-> b]
NullCell == [t |-> "null", s |-> <<>>, n |-> Zero, b |-> FALSE]
UndefinedCell == [t |-> "undefined", s |-> <<>>, n |-> Zero, b |-> FALSE]

Digits == <<"0","1","2","3","4","5","6","7","8","9">>

IsDigit(c) == \E i \in 1..10 : Digits[i] = c

DigitVal(c) == (CHOOSE i \in 1..10 : Digits[i] = c) - 1

\* number of consecutive digits of s starting at position i
RECURSIVE DigitRun(_, _)
DigitRun(s, i) ==
    IF i <= Len(s) /\ IsDigit(s[i]) THEN 1 + DigitRun(s, i + 1) ELSE 0

\* the value of the n digits of s starting at position i
RECURSIVE DigitsValue(_, _, _)
DigitsValue(s, i, n) ==
    IF n = 0 THEN 0
    ELSE 10 * DigitsValue(s, i, n - 1) + DigitVal(s[i + n - 1])

StartsWithAt(s, i, p) ==
    i + Len(p) - 1 <= Len(s) /\ SubSeq(s, i, i + Len(p) - 1) = p

\* s with every character of `drop` removed
RECURSIVE RemoveChars(_, _)
RemoveChars(s, drop) ==
    IF s = <<>> THEN <<>>
    ELSE IF Head(s) \in drop THEN RemoveChars(Tail(s), drop)
    ELSE <<Head(s)>> \o RemoveChars(Tail(s), drop)

Negate(a) ==
    IF a.k = "fin" THEN Rat(-a.n, a.d)
    ELSE IF a.k = "inf" THEN NegInf
    ELSE IF a.k = "ninf" THEN PosInf
    ELSE a

\* mant / 10^nf scaled by the exponent whose digits start at position ep
ScaleBy(s, ep, eneg, mant, nf) ==
    LET ev == DigitsValue(s, ep, DigitRun(s, ep))
    IN  IF eneg THEN Rat(mant, Pow10(nf) * Pow10(ev))
        ELSE Rat(mant * Pow10(ev), Pow10(nf))

\* the optional exponent part at position q: e or E, an optional sign,
\* digits (an exponent without digits is not read)
ApplyExponent(s, q, mant, nf) ==
    IF q <= Len(s) /\ s[q] \in {"e", "E"}
    THEN IF q + 1 <= Len(s) /\ s[q + 1] \in {"+", "-"}
         THEN ScaleBy(s, q + 2, s[q + 1] = "-", mant, nf)
         ELSE ScaleBy(s, q + 1, FALSE, mant, nf)
    ELSE Rat(mant, Pow10(nf))

\* ni integer digits from position 1, nf fraction digits, the rest at q
ParseMantissa(s, ni, nf, q) ==
    IF ni = 0 /\ nf = 0 THEN NaN
    ELSE ApplyExponent(s, q,
            DigitsValue(s, 1, ni) * Pow10(nf) + DigitsValue(s, ni + 2, nf), nf)

ParseAfterInt(s, ni) ==
    IF ni + 1 <= Len(s) /\ s[ni + 1] = "."
    THEN ParseMantissa(s, ni, DigitRun(s, ni + 2), ni + 2 + DigitRun(s, ni + 2))
    ELSE ParseMantissa(s, ni, 0, ni + 1)

ParseUnsigned(s) ==
    IF StartsWithAt(s, 1, <<"I","n","f","i","n","i","t","y">>) THEN PosInf
    ELSE ParseAfterInt(s, DigitRun(s, 1))

\* the global parseFloat: leading white space is skipped, then the longest
\* prefix that is a StrDecimalLiteral is read:
\*   [+-] ( Infinity | digits [. digits] [e [+-] digits] | . digits [...] )
ParseFloat(str) ==
    LET s == Trim(str)
    IN  IF s # <<>> /\ Head(s) = "-" THEN Negate(ParseUnsigned(Tail(s)))
        ELSE IF s # <<>> /\ Head(s) = "+" THEN ParseUnsigned(Tail(s))
        ELSE ParseUnsigned(s)

parseNumeric(value) ==
    IF value.t = "number"
    THEN IF IsNaN(value.n) THEN Zero ELSE value.n
    ELSE IF value.t = "string"
         THEN LET cleaned == RemoveChars(Trim(value.s), {"$", ",", "%"} \cup Whitespace)
                  parsed == ParseFloat(cleaned)
              IN  IF IsNaN(parsed) THEN Zero ELSE parsed
    ELSE Zero

----------------------------------------------------------------------------
(* Row Normalizer *)

RECURSIVE NatToString(_)
NatToString(n) ==
    IF n < 10 THEN <<Digits[n + 1]>>
    ELSE NatToString(n \div 10) \o <<Digits[(n % 10) + 1]>>

\* the fractional digits of r/d, 0 <= r < d, at most `left` of them
RECURSIVE FracDigits(_, _, _)
FracDigits(r, d, left) ==
    IF r = 0 \/ left = 0 THEN <<>>
    ELSE <<Digits[((r * 10) \div d) + 1]>> \o FracDigits((r * 10) % d, d, left - 1)

\* Number::toString for the values the model holds (no exponent notation)
NumToString(a) ==
    IF a.k = "nan" THEN <<"N","a","N">>
    ELSE IF a.k = "inf" THEN <<"I","n","f","i","n","i","t","y">>
    ELSE IF a.k = "ninf" THEN <<"-","I","n","f","i","n","i","t","y">>
    ELSE LET m == Abs(a.n)
             frac == FracDigits(m % a.d, a.d, 17)
         IN  (IF a.n < 0 THEN <<"-">> ELSE <<>>)
             \o NatToString(m \div a.d)
             \o (IF frac = <<>> THEN <<>> ELSE <<".">> \o frac)

\* String(value) of a raw cell
CellToString(v) ==
    IF v.t = "string" THEN v.s
    ELSE IF v.t = "number" THEN NumToString(v.n)
    ELSE IF v.t = "boolean" THEN (IF v.b THEN <<"t","r","u","e">> ELSE <<"f","a","l","s","e">>)
    ELSE IF v.t = "null" THEN <<"n","u","l","l">>
    ELSE <<"u","n","d","e","f","i","n","e","d">>

\* JavaScript truthiness of a raw cell
Truthy(v) ==
    IF v.t = "string" THEN v.s # <<>>
    ELSE IF v.t = "number" THEN ~IsNaN(v.n) /\ ~NumIsZero(v.n)
    ELSE IF v.t = "boolean" THEN v.b
    ELSE FALSE

\* row[header]
Cell(row, header) == IF header \in DOMAIN row THEN row[header] ELSE UndefinedCell

\* mapping.field as a condition: the field is mapped to a non-empty header
HasField(m, field) == field \in DOMAIN m /\ m[field] # <<>>

RequiredNumeric == <<"spend", "leads", "quotes", "sales">>

\* the optional keys in the order of the object literal, date excluded
OptionalNumeric ==
    <<"clicks", "impressions", "contacted", "calls", "policyItems", "premium",
      "quoteCpa", "policyCpa">>

SeqRange(s) == {s[i] : i \in 1..Len(s)}

\* a Date object; the instant it denotes is not represented
DateValue == [k |-> "date", n |-> 0, d |-> 1]

\* if (!entityValue) return null
EntityGuardRejects(entityValue) == ~Truthy(entityValue)

\* The variant that gives an unmapped required field no value.
RequiredValue_noDefault(row, m, field) ==
    IF HasField(m, field) THEN parseNumeric(Cell(row, m[field])) ELSE Undefined

\* mapping.f ? parseNumeric(row[mapping.f]) : 0
RequiredValue(row, m, field) ==
    IF HasField(m, field) THEN parseNumeric(Cell(row, m[field])) ELSE Zero

\* mapping.f ? parseNumeric(row[mapping.f]) : undefined
OptionalValue(row, m, field) ==
    IF HasField(m, field) THEN parseNumeric(Cell(row, m[field])) ELSE Undefined

\* normalizeRow.  dateOk says whether `new Date(dateValue)` denotes a valid
\* instant; the outcome of that engine-dependent parse is an input.
normalizeRow(row, m, dateOk) ==
    IF ~HasField(m, "entity") THEN NullRow
    ELSE LET entityValue == Cell(row, m["entity"])
             entity == Trim(CellToString(entityValue))
             hasDate == /\ HasField(m, "date")
                        /\ Truthy(Cell(row, m["date"]))
                        /\ Cell(row, m["date"]).t # "boolean"
                        /\ dateOk
             keys == {"entity"} \cup SeqRange(RequiredNumeric)
                     \cup {f \in SeqRange(OptionalNumeric) :
                              OptionalValue(row, m, f) # Undefined}
                     \cup (IF hasDate THEN {"date"} ELSE {})
         IN  IF EntityGuardRejects(entityValue) THEN NullRow
             ELSE IF entity = <<>> THEN NullRow
             ELSE [f \in keys |->
                     IF f = "entity" THEN entity
                     ELSE IF f = "date" THEN DateValue
                     ELSE IF f \in SeqRange(RequiredNumeric)
                          THEN RequiredValue(row, m, f)
                     ELSE OptionalValue(row, m, f)]

Campaign == <<"C","a","m","p","a","i","g","n">>
Value == <<"V","a","l","u","e">>
Gone == <<"G","o","n","e">>

\* Raw rows with the columns Campaign and Value: every kind of entity cell
\* beside an ordinary value, every kind of value cell beside an ordinary
\* entity, and a row without the Campaign key.
EntityCells ==
    {StrCell(<<" ","B","e","t","a"," ">>), StrCell(<<" "," ">>), StrCell(<<>>), NullCell,
     NumCell(Zero), NumCell(Int2Num(7)), BoolCell(FALSE)}

ValueCells ==
    {StrCell(<<"$","1",",","2","3","4",".","5","0">>), StrCell(<<"1","2","%">>), StrCell(<<"a","b","c">>), StrCell(<<>>),
     NullCell, NumCell(NaN), StrCell(<<"-","5">>), StrCell(<<"1",".","2","3","4",",","5","6">>)}

RawRowPool ==
    {[h \in {Campaign, Value} |->
        IF h = Campaign THEN e ELSE NumCell(Int2Num(100))] : e \in EntityCells}
    \cup {[h \in {Campaign, Value} |->
        IF h = Campaign THEN StrCell(<<"A","l","p","h","a">>) ELSE v] : v \in ValueCells}
    \cup {[h \in {Value} |-> NumCell(Int2Num(100))]}

NumericFields == SeqRange(RequiredNumeric) \cup SeqRange(OptionalNumeric)

\* Mappings: the entity unmapped, mapped to the empty header, to a header
\* the rows lack, or to Campaign; with Campaign, no other field, one numeric
\* field or the date on Value, one on a header the rows lack, or all fields.
MappingPool ==
    {NoMapping, [entity |-> <<>>], [entity |-> Gone], [entity |-> Campaign]}
    \cup {[f \in {"entity", g} |-> IF f = "entity" THEN Campaign ELSE Value] :
            g \in NumericFields \cup {"date"}}
    \cup {[f \in {"entity", g} |-> IF f = "entity" THEN Campaign ELSE Gone] :
            g \in {"spend", "clicks"}}
    \cup {[f \in Fields |-> IF f = "entity" THEN Campaign ELSE Value]}

MaxRawRows == 2

RawRowLists == UNION {[1..n -> RawRowPool] : n \in 0..MaxRawRows}

NormInit ==
    /\ rawData \in RawRowLists
    /\ colMapping \in MappingPool
    /\ rowIdx = 0
    /\ normalizedRow = NullRow
    /\ normalized = <<>>
    /\ DetectIdle
    /\ MetricsIdle
    /\ TransformIdle
    /\ StoreIdle
    /\ ScanIdle

\* One iteration of normalizeData's loop: normalise the next row and push
\* the result unless it is null.
NormalizeNextRow ==
    /\ rowIdx < Len(rawData)
    /\ \E dateOk \in (IF HasField(colMapping, "date") THEN BOOLEAN ELSE {FALSE}) :
          normalizedRow' = normalizeRow(rawData[rowIdx + 1], colMapping, dateOk)
    /\ normalized' = IF normalizedRow' # NullRow
                     THEN Append(normalized, normalizedRow')
                     ELSE normalized
    /\ rowIdx' = rowIdx + 1
    /\ UNCHANGED <<rawData, colMapping, detectVars, metricVars, transformVars,
                   storeVars, scanVars>>

NormDone == rowIdx = Len(rawData)

NormNext == NormalizeNextRow

SpecNormalize == NormInit /\ [][NormNext]_vars

----------------------------------------------------------------------------
(* Claims about the Row Normalizer *)

\* a raw row has been passed to normalizeRow; LastRow is that row
RowProcessed == rowIdx > 0

LastRow == rawData[rowIdx]

\* the cell parses as a number: a number other than NaN, or a string whose
\* cleaned text parseFloat reads a number from
ParsesAsNumber(v) ==
    \/ v.t = "number" /\ ~IsNaN(v.n)
    \/ v.t = "string" /\
         ~IsNaN(ParseFloat(RemoveChars(Trim(v.s), {"$", ",", "%"} \cup Whitespace)))

\* C4: for every optional numeric field, the key is in the NormalizedRow
\* exactly when the field is mapped and the row's cell parses as a number;
\* unmapped, empty or unparsable leaves the key out.
C4_OptionalKeyOnlyWhenParsable ==
    (RowProcessed /\ normalizedRow # NullRow) =>
        \A f \in SeqRange(OptionalNumeric) :
            f \in DOMAIN normalizedRow <=>
                (HasField(colMapping, f)
                    /\ ParsesAsNumber(Cell(LastRow, colMapping[f])))

\* the entity does not resolve, in the words of the claim: no entity
\* header, no value under it, or a value whose text trims to nothing
EntityUnresolved(row, m) ==
    \/ ~HasField(m, "entity")
    \/ Cell(row, m["entity"]).t \in {"undefined", "null"}
    \/ Trim(CellToString(Cell(row, m["entity"]))) = <<>>

ResolvingRows == {i \in 1..Len(rawData) : ~EntityUnresolved(rawData[i], colMapping)}

\* C5: normalizeRow returns null exactly when the entity does not resolve,
\* and normalizeData outputs exactly the rows whose entity resolves.
C5_NullExactlyWhenEntityUnresolved ==
    /\ RowProcessed =>
          (normalizedRow = NullRow <=> EntityUnresolved(LastRow, colMapping))
    /\ NormDone => Len(normalized) = Cardinality(ResolvingRows)

\* what the code drops a row for: the entity is unmapped, its cell is
\* falsy, or its text trims to nothing
EntityDropReason(row, m) ==
    \/ ~HasField(m, "entity")
    \/ ~Truthy(Cell(row, m["entity"]))
    \/ Trim(CellToString(Cell(row, m["entity"]))) = <<>>

----------------------------------------------------------------------------
(* Metric Engine *)

\* The variant that divides without any test.
safeDivide_noZeroCheck(numerator, denominator) == NumDiv(numerator, denominator)

\* The variant that returns the quotient without testing it.
safeDivide_noResultCheck(numerator, denominator) ==
    IF NumIsZero(denominator) \/ ~IsFinite(denominator) THEN Zero
    ELSE NumDiv(numerator, denominator)

safeDivide(numerator, denominator) ==
    IF NumIsZero(denominator) \/ ~IsFinite(denominator) THEN Zero
    ELSE LET result == NumDiv(numerator, denominator)
         IN  IF IsFinite(result) THEN result ELSE Zero

\* The variant that returns the ratio on the 0-1 scale.
calculatePercentage_fraction(numerator, denominator) ==
    safeDivide(numerator, denominator)

calculatePercentage(numerator, denominator) ==
    NumMul(safeDivide(numerator, denominator), Int2Num(100))

\* row.f ?? 0
OrZero(row, f) == IF f \in DOMAIN row THEN row[f] ELSE Zero

\* the reduce over the rows, for one summed field
RECURSIVE SumField(_, _)
SumField(rs, f) ==
    IF rs = <<>> THEN Zero
    ELSE NumAdd(SumField(SubSeq(rs, 1, Len(rs) - 1), f), OrZero(rs[Len(rs)], f))

\* the reduce over the rows, for one count of rows carrying the field
RECURSIVE CountField(_, _)
CountField(rs, f) ==
    IF rs = <<>> THEN 0
    ELSE CountField(SubSeq(rs, 1, Len(rs) - 1), f)
         + (IF f \in DOMAIN rs[Len(rs)] THEN 1 ELSE 0)

Totals(rs) ==
    [spend |-> SumField(rs, "spend"),
     leads |-> SumField(rs, "leads"),
     quotes |-> SumField(rs, "quotes"),
     sales |-> SumField(rs, "sales"),
     clicks |-> SumField(rs, "clicks"),
     impressions |-> SumField(rs, "impressions"),
     contacted |-> SumField(rs, "contacted"),
     calls |-> SumField(rs, "calls"),
     policyItems |-> SumField(rs, "policyItems"),
     premium |-> SumField(rs, "premium"),
     quoteCpaSum |-> SumField(rs, "quoteCpa"),
     quoteCpaCount |-> CountField(rs, "quoteCpa"),
     policyCpaSum |-> SumField(rs, "policyCpa"),
     policyCpaCount |-> CountField(rs, "policyCpa")]

\* The variant without the pre-calculated override.
OverrideOrRatio_ratioOnly(sum, count, spend, units) == safeDivide(spend, units)

\* count > 0 ? safeDivide(sum, count) : safeDivide(spend, units)
OverrideOrRatio(sum, count, spend, units) ==
    IF count > 0 THEN safeDivide(sum, Int2Num(count))
    ELSE safeDivide(spend, units)

\* The variant whose gate lets a zero total through.
Gated_zeroPasses(total, value) ==
    IF NumPositive(total) \/ NumIsZero(total) THEN value ELSE Undefined

\* total > 0 ? value : undefined
Gated(total, value) == IF NumPositive(total) THEN value ELSE Undefined

calculateEntityMetrics(entity, rs) ==
    LET totals == Totals(rs)
    IN  [entity |-> entity,
         spend |-> totals.spend,
         leads |-> totals.leads,
         quotes |-> totals.quotes,
         sales |-> totals.sales,
         clicks |-> Gated(totals.clicks, totals.clicks),
         impressions |-> Gated(totals.impressions, totals.impressions),
         contacted |-> Gated(totals.contacted, totals.contacted),
         calls |-> Gated(totals.calls, totals.calls),
         policyItems |-> Gated(totals.policyItems, totals.policyItems),
         premium |-> Gated(totals.premium, totals.premium),
         cpl |-> safeDivide(totals.spend, totals.leads),
         cpq |-> OverrideOrRatio(totals.quoteCpaSum, totals.quoteCpaCount,
                                 totals.spend, totals.quotes),
         cpa |-> OverrideOrRatio(totals.policyCpaSum, totals.policyCpaCount,
                                 totals.spend, totals.sales),
         cpi |-> Gated(totals.policyItems,
                       safeDivide(totals.spend, totals.policyItems)),
         cpc |-> Gated(totals.clicks, safeDivide(totals.spend, totals.clicks)),
         quoteRate |-> calculatePercentage(totals.quotes, totals.leads),
         quoteToClose |-> calculatePercentage(totals.sales, totals.quotes),
         closeRate |-> calculatePercentage(totals.sales, totals.leads),
         clickToLead |-> Gated(totals.clicks,
                               calculatePercentage(totals.leads, totals.clicks)),
         clickToClose |-> Gated(totals.clicks,
                                calculatePercentage(totals.sales, totals.clicks)),
         contactRate |-> Gated(totals.contacted,
                               calculatePercentage(totals.contacted, totals.leads)),
         inboundCallRate |-> Gated(totals.calls,
                                   calculatePercentage(totals.calls, totals.leads)),
         ctr |-> Gated(totals.impressions,
                       calculatePercentage(totals.clicks, totals.impressions)),
         roas |-> Gated(totals.premium, safeDivide(totals.premium, totals.spend))]

\* The variant whose loop over the rows stops one row early.
calculateGlobalMetrics_skipsLastRow(allRows) ==
    [calculateEntityMetrics(<<"T","o","t","a","l">>, SubSeq(allRows, 1, Len(allRows) - 1))
        EXCEPT !.entity = <<"T","o","t","a","l">>]

calculateGlobalMetrics(allRows) ==
    [calculateEntityMetrics(<<"T","o","t","a","l">>, allRows) EXCEPT !.entity = <<"T","o","t","a","l">>]

\* The keys of rowsByEntity in insertion order: each entity string at its
\* first appearance.
RECURSIVE EntityKeys(_)
EntityKeys(rs) ==
    IF rs = <<>> THEN <<>>
    ELSE LET before == EntityKeys(SubSeq(rs, 1, Len(rs) - 1))
             e == rs[Len(rs)].entity
         IN  IF \E i \in 1..Len(before) : before[i] = e THEN before
             ELSE Append(before, e)

\* The variant that merges entity strings differing only in case.
RowsOfEntity_ignoreCase(rs, e) ==
    LET Same(row) == ToLowerCase(row.entity) = ToLowerCase(e)
    IN  SelectSeq(rs, Same)

\* rowsByEntity.get(e): the rows carrying exactly that entity string, in
\* input order
RowsOfEntity(rs, e) ==
    LET Same(row) == row.entity = e
    IN  SelectSeq(rs, Same)

calculateAllMetrics(rs) ==
    LET keys == EntityKeys(rs)
    IN  [global |-> calculateGlobalMetrics(rs),
         entities |-> [i \in 1..Len(keys) |->
                          calculateEntityMetrics(keys[i], RowsOfEntity(rs, keys[i]))]]

\* Entity strings: two that differ in case only, and the name of the global
\* aggregate
EntityNames == {<<"A">>, <<"a">>, <<"T","o","t","a","l">>}

\* The numeric parts of the normalised rows the engine is run on: the rows
\* of the aggregation example, rows with pre-calculated CPA values, optional
\* fields present and zero, a negative count, and sales above quotes.
RowProfiles ==
    {[spend |-> Int2Num(10), leads |-> Int2Num(5), quotes |-> Int2Num(2),
      sales |-> Int2Num(1)],
     [spend |-> Int2Num(20), leads |-> Int2Num(5), quotes |-> Int2Num(2),
      sales |-> Int2Num(1), quoteCpa |-> Int2Num(8), policyCpa |-> Int2Num(40)],
     [spend |-> Int2Num(5), leads |-> Int2Num(1), quotes |-> Int2Num(1),
      sales |-> Int2Num(0), clicks |-> Int2Num(-4), impressions |-> Int2Num(100)],
     [spend |-> Zero, leads |-> Zero, quotes |-> Zero, sales |-> Zero,
      clicks |-> Zero, impressions |-> Zero, contacted |-> Zero,
      calls |-> Zero, policyItems |-> Zero, premium |-> Zero,
      quoteCpa |-> Zero, policyCpa |-> Zero],
     [spend |-> Int2Num(30), leads |-> Int2Num(200), quotes |-> Int2Num(50),
      sales |-> Int2Num(60), clicks |-> Int2Num(4), contacted |-> Int2Num(1),
      calls |-> Int2Num(2), policyItems |-> Int2Num(3),
      premium |-> Int2Num(90), policyCpa |-> Int2Num(10)]}

NormalizedRowPool ==
    {[f \in {"entity"} \cup DOMAIN p |-> IF f = "entity" THEN e ELSE p[f]] :
        e \in EntityNames, p \in RowProfiles}

MaxRows == 3

NormalizedRowLists == UNION {[1..n -> NormalizedRowPool] : n \in 0..MaxRows}

MetricsInit ==
    /\ metricRows \in NormalizedRowLists
    /\ metricsResult = NoResult
    /\ metricsPc = "input"
    /\ DetectIdle
    /\ NormIdle
    /\ TransformIdle
    /\ StoreIdle
    /\ ScanIdle

CalculateAllMetrics ==
    /\ metricsPc = "input"
    /\ metricsResult' = calculateAllMetrics(metricRows)
    /\ metricsPc' = "done"
    /\ UNCHANGED <<metricRows, detectVars, normVars, transformVars, storeVars, scanVars>>

MetricsDone == metricsPc = "done"

MetricsNext == CalculateAllMetrics

SpecMetrics == MetricsInit /\ [][MetricsNext]_vars

----------------------------------------------------------------------------
(* Claims about the Metric Engine *)

RowIndices == 1..Len(metricRows)

Group(e) == {i \in RowIndices : metricRows[i].entity = e}

FirstIndex(e) == CHOOSE i \in Group(e) : \A j \in Group(e) : i <= j

\* the sum of field f over the rows with index in I, a missing key counting 0
RECURSIVE SumOver(_, _)
SumOver(I, f) ==
    IF I = {} THEN Zero
    ELSE LET i == CHOOSE j \in I : TRUE
         IN  NumAdd(IF f \in DOMAIN metricRows[i] THEN metricRows[i][f] ELSE Zero,
                    SumOver(I \ {i}, f))

Carriers(I, f) == {i \in I : f \in DOMAIN metricRows[i]}

EntityResults == metricsResult.entities

\* every EntityMetrics returned, paired with the rows it aggregates
Aggregates ==
    {<<EntityResults[k], Group(EntityResults[k].entity)>> : k \in 1..Len(EntityResults)}
    \cup {<<metricsResult.global, RowIndices>>}

\* C7: one EntityMetrics per distinct entity string (compared exactly), in
\* order of first appearance, each with spend, leads, quotes and sales summed
\* over exactly the rows carrying that string.
C7_OneMetricsPerEntityString ==
    MetricsDone =>
        /\ Len(EntityResults) = Cardinality({metricRows[i].entity : i \in RowIndices})
        /\ {EntityResults[k].entity : k \in 1..Len(EntityResults)}
              = {metricRows[i].entity : i \in RowIndices}
        /\ \A j, k \in 1..Len(EntityResults) :
              j < k => FirstIndex(EntityResults[j].entity)
                         < FirstIndex(EntityResults[k].entity)
        /\ \A k \in 1..Len(EntityResults) :
              \A f \in {"spend", "leads", "quotes", "sales"} :
                 EntityResults[k][f] = SumOver(Group(EntityResults[k].entity), f)

\* Rows "A", "a", "A": two entities, "A" first with the sum of its two rows.
C7_Witness ==
    /\ MetricsDone
    /\ Len(metricRows) = 3
    /\ metricRows[1].entity = <<"A">> /\ metricRows[2].entity = <<"a">>
    /\ metricRows[3].entity = <<"A">>
    /\ Len(EntityResults) = 2
    /\ EntityResults[1].entity = <<"A">> /\ EntityResults[2].entity = <<"a">>
    /\ EntityResults[1].spend = NumAdd(metricRows[1].spend, metricRows[3].spend)
    /\ EntityResults[1].spend # Zero /\ metricRows[2].spend # Zero

OverrideRule(m, I, metric, override, units) ==
    IF Carriers(I, override) # {}
    THEN m[metric] = NumDiv(SumOver(Carriers(I, override), override),
                            Int2Num(Cardinality(Carriers(I, override))))
    ELSE m[metric] = safeDivide(SumOver(I, "spend"), SumOver(I, units))

\* C8: cpa is the mean of the policyCpa values of the rows carrying one when
\* there is such a row, and safeDivide(total spend, total sales) otherwise;
\* the same for cpq with quoteCpa and total quotes.
C8_PreCalculatedOverride ==
    MetricsDone =>
        \A a \in Aggregates :
            /\ OverrideRule(a[1], a[2], "cpa", "policyCpa", "sales")
            /\ OverrideRule(a[1], a[2], "cpq", "quoteCpa", "quotes")

\* A group with a supplied policyCpa, nonzero spend and nonzero sales whose
\* cpa is the mean supplied and differs from spend / sales.
C8_Witness ==
    /\ MetricsDone
    /\ \E a \in Aggregates :
          /\ Carriers(a[2], "policyCpa") # {}
          /\ Carriers(a[2], "policyCpa") # a[2]
          /\ ~NumIsZero(a[1].spend) /\ ~NumIsZero(a[1].sales)
          /\ a[1].cpa # NumDiv(a[1].spend, a[1].sales)
          /\ a[1].cpa = NumDiv(SumOver(Carriers(a[2], "policyCpa"), "policyCpa"),
                               Int2Num(Cardinality(Carriers(a[2], "policyCpa"))))

\* each gated metric with the total that gates it
GatedBy ==
    [cpi |-> "policyItems", cpc |-> "clicks", clickToLead |-> "clicks",
     clickToClose |-> "clicks", contactRate |-> "contacted",
     inboundCallRate |-> "calls", ctr |-> "impressions", roas |-> "premium"]

AlwaysNumbers == {"cpl", "cpq", "cpa", "quoteRate", "quoteToClose", "closeRate"}

\* C9: a gated metric is undefined unless its gating total is greater than
\* 0 and is a number whenever it is; cpl, cpq, cpa, quoteRate, quoteToClose
\* and closeRate are always numbers.
C9_GatedMetricsUndefinedUnlessPositive ==
    MetricsDone =>
        \A a \in Aggregates :
            /\ \A g \in DOMAIN GatedBy :
                  IF NumPositive(SumOver(a[2], GatedBy[g]))
                  THEN IsNumber(a[1][g])
                  ELSE a[1][g] = Undefined
            /\ \A g \in AlwaysNumbers : IsNumber(a[1][g])

\* A group whose clicks total is zero or negative with clicks supplied, so
\* cpc is undefined, while its policyItems total is positive and cpi is a
\* number.
C9_Witness ==
    /\ MetricsDone
    /\ \E a \in Aggregates :
          /\ Carriers(a[2], "clicks") # {}
          /\ a[1].cpc = Undefined
          /\ NumPositive(SumOver(a[2], "policyItems"))
          /\ IsNumber(a[1].cpi)

Percent(num, den) ==
    IF NumIsZero(den) THEN Zero ELSE NumMul(NumDiv(num, den), Int2Num(100))

\* C10: quoteRate = quotes / leads * 100, closeRate = sales / leads * 100
\* and quoteToClose = sales / quotes * 100 when the denominator is nonzero,
\* and 0 when it is 0.
C10_RatesOnPercentScale ==
    MetricsDone =>
        \A a \in Aggregates :
            LET leads == SumOver(a[2], "leads")
                quotes == SumOver(a[2], "quotes")
                sales == SumOver(a[2], "sales")
            IN  /\ a[1].quoteRate = Percent(quotes, leads)
                /\ a[1].closeRate = Percent(sales, leads)
                /\ a[1].quoteToClose = Percent(sales, quotes)

\* leads = 200 and quotes = 50 give quoteRate = 25.
C10_Witness ==
    /\ MetricsDone
    /\ \E a \in Aggregates :
          /\ a[1].leads = Int2Num(200)
          /\ a[1].quotes = Int2Num(50)
          /\ a[1].quoteRate = Int2Num(25)

----------------------------------------------------------------------------
(* Value Transformation Layer: one call of one of its functions *)

\* Numerators and denominators: zero, positive, negative, a fraction, NaN
\* and the two infinities
NumberPool ==
    {Zero, Int2Num(1), Int2Num(-2), Int2Num(7), Rat(1, 3), Rat(-5, 2), NaN,
     PosInf, NegInf}

SafeDivideCalls ==
    {[fn |-> "safeDivide", numerator |-> a, denominator |-> b] :
        a \in NumberPool, b \in NumberPool}

----------------------------------------------------------------------------
(* Date parsing *)

\* the value null returned by a parser
Null == [k |-> "null"]

\* a Date object holding the local calendar day (month 1..12)
DateOf(year, month, day) ==
    [k |-> "date", year |-> year, month |-> month, day |-> day]

\* a Date object produced by the engine's own parser, `new Date(string)`
NativeDate == [k |-> "nativeDate"]

DateFormats ==
    <<"auto", <<"M","M","/","D","D","/","Y","Y","Y","Y">>,
    <<"D","D","/","M","M","/","Y","Y","Y","Y">>,
    <<"Y","Y","Y","Y","-","M","M","-","D","D">>,
    <<"M","/","D","/","Y","Y","Y","Y">>,
      <<"M","/","D","/","Y","Y">>, <<"M","M","-","D","D","-","Y","Y","Y","Y">>,
      <<"D","D","-","M","M","-","Y","Y","Y","Y">>>>

AllDigits(s) == \A i \in 1..Len(s) : IsDigit(s[i])

\* (0?[1-9]|1[0-2])
MatchesMonth(s) ==
    \/ Len(s) = 1 /\ IsDigit(s[1]) /\ s[1] # "0"
    \/ Len(s) = 2 /\ s[1] = "0" /\ IsDigit(s[2]) /\ s[2] # "0"
    \/ Len(s) = 2 /\ s[1] = "1" /\ s[2] \in {"0", "1", "2"}

\* ([1-9]|1[0-2])
MatchesMonthNoZero(s) ==
    \/ Len(s) = 1 /\ IsDigit(s[1]) /\ s[1] # "0"
    \/ Len(s) = 2 /\ s[1] = "1" /\ s[2] \in {"0", "1", "2"}

\* (0?[1-9]|[12]\d|3[01])
MatchesDay(s) ==
    \/ Len(s) = 1 /\ IsDigit(s[1]) /\ s[1] # "0"
    \/ Len(s) = 2 /\ s[1] = "0" /\ IsDigit(s[2]) /\ s[2] # "0"
    \/ Len(s) = 2 /\ s[1] \in {"1", "2"} /\ IsDigit(s[2])
    \/ Len(s) = 2 /\ s[1] = "3" /\ s[2] \in {"0", "1"}

\* ([1-9]|[12]\d|3[01])
MatchesDayNoZero(s) ==
    \/ Len(s) = 1 /\ IsDigit(s[1]) /\ s[1] # "0"
    \/ Len(s) = 2 /\ s[1] \in {"1", "2"} /\ IsDigit(s[2])
    \/ Len(s) = 2 /\ s[1] = "3" /\ s[2] \in {"0", "1"}

\* (\d{4}) and (\d{2})
MatchesYear4(s) == Len(s) = 4 /\ AllDigits(s)

MatchesYear2(s) == Len(s) = 2 /\ AllDigits(s)

MatchesGroup(kind, s) ==
    IF kind = "MM" THEN MatchesMonth(s)
    ELSE IF kind = "M" THEN MatchesMonthNoZero(s)
    ELSE IF kind = "DD" THEN MatchesDay(s)
    ELSE IF kind = "D" THEN MatchesDayNoZero(s)
    ELSE IF kind = "YYYY" THEN MatchesYear4(s)
    ELSE MatchesYear2(s)

\* The anchored patterns: three groups of digits and the separator
DATE_PATTERNS(format) ==
    IF format = <<"M","M","/","D","D","/","Y","Y","Y","Y">> THEN [sep |-> "/", groups |-> <<"MM", "DD", "YYYY">>]
    ELSE IF format = <<"D","D","/","M","M","/","Y","Y","Y","Y">> THEN [sep |-> "/", groups |-> <<"DD", "MM", "YYYY">>]
    ELSE IF format = <<"Y","Y","Y","Y","-","M","M","-","D","D">> THEN [sep |-> "-", groups |-> <<"YYYY", "MM", "DD">>]
    ELSE IF format = <<"M","/","D","/","Y","Y","Y","Y">> THEN [sep |-> "/", groups |-> <<"M", "D", "YYYY">>]
    ELSE IF format = <<"M","/","D","/","Y","Y">> THEN [sep |-> "/", groups |-> <<"M", "D", "YY">>]
    ELSE IF format = <<"M","M","-","D","D","-","Y","Y","Y","Y">> THEN [sep |-> "-", groups |-> <<"MM", "DD", "YYYY">>]
    ELSE [sep |-> "-", groups |-> <<"DD", "MM", "YYYY">>]

\* trimmed.match(pattern): the three captured groups, or <<>> for no match.
\* The groups hold digits only, so the two separators split the string in
\* one way only.
DateMatch(trimmed, format) ==
    CHOOSE match \in
        {IF Cardinality(seps) # 2 THEN <<>>
         ELSE CHOOSE groups \in
                 {IF \A g \in 1..3 :
                        MatchesGroup(DATE_PATTERNS(format).groups[g], parts[g])
                  THEN parts ELSE <<>> :
                     parts \in
                        {<<SubSeq(trimmed, 1, p1 - 1),
                           SubSeq(trimmed, p1 + 1, p2 - 1),
                           SubSeq(trimmed, p2 + 1, Len(trimmed))>> :
                            p1 \in {i \in seps : \A j \in seps : i <= j},
                            p2 \in {i \in seps : \A j \in seps : i >= j}}} : TRUE :
            seps \in {{i \in 1..Len(trimmed) :
                          trimmed[i] = DATE_PATTERNS(format).sep}}} : TRUE

\* parseInt(text, 10) of a run of digits
ParseInt(s) == DigitsValue(s, 1, Len(s))

\* The switch over the format: which group is the year, the month, the day
DateComponents(match, format) ==
    IF format \in {<<"M","M","/","D","D","/","Y","Y","Y","Y">>,
                   <<"M","/","D","/","Y","Y","Y","Y">>,
                   <<"M","M","-","D","D","-","Y","Y","Y","Y">>}
    THEN [month |-> ParseInt(match[1]), day |-> ParseInt(match[2]),
          year |-> ParseInt(match[3])]
    ELSE IF format = <<"M","/","D","/","Y","Y">>
    THEN [month |-> ParseInt(match[1]), day |-> ParseInt(match[2]),
          year |-> ParseInt(match[3]) + 2000]
    ELSE IF format \in {<<"D","D","/","M","M","/","Y","Y","Y","Y">>,
                        <<"D","D","-","M","M","-","Y","Y","Y","Y">>}
    THEN [day |-> ParseInt(match[1]), month |-> ParseInt(match[2]),
          year |-> ParseInt(match[3])]
    ELSE [year |-> ParseInt(match[1]), month |-> ParseInt(match[2]),
          day |-> ParseInt(match[3])]

IsLeapYear(y) == (y % 4 = 0 /\ y % 100 # 0) \/ y % 400 = 0

\* days of the month with index m (0 = January)
DaysInMonth(y, m) ==
    IF m = 1 THEN (IF IsLeapYear(y) THEN 29 ELSE 28)
    ELSE IF m \in {3, 5, 8, 10} THEN 30
    ELSE 31

\* MakeDay for a month index in 0..11 and a day >= 1: days beyond the end
\* of the month run over into the following months
RECURSIVE MakeDay(_, _, _)
MakeDay(y, m, day) ==
    IF day <= DaysInMonth(y, m) THEN DateOf(y, m + 1, day)
    ELSE IF m = 11 THEN MakeDay(y + 1, 0, day - DaysInMonth(y, m))
    ELSE MakeDay(y, m + 1, day - DaysInMonth(y, m))

\* new Date(year, monthIndex, day): a year from 0 to 99 stands for 1900 + year
NewDate(year, monthIndex, day) ==
    MakeDay(IF 0 <= year /\ year <= 99 THEN 1900 + year ELSE year, monthIndex, day)

\* parseDateWithFormat for an explicit format, after the guards on the value
\* the Date built from the components, null when it is another day than
\* the one written
CheckedDate(c) ==
    CHOOSE checked \in
        {IF date.year # c.year \/ date.month - 1 # c.month - 1
            \/ date.day # c.day
         THEN Null
         ELSE date : date \in {NewDate(c.year, c.month - 1, c.day)}} : TRUE

ParseExplicitDate(trimmed, format) ==
    CHOOSE parsed \in
        {IF match = <<>> THEN Null
         ELSE CHOOSE checked \in
                 {CheckedDate(c) : c \in {DateComponents(match, format)}} : TRUE :
            match \in {DateMatch(trimmed, format)}} : TRUE

\* the order in which parseAutoDate tries the explicit formats
AutoDateFormats ==
    <<<<"Y","Y","Y","Y","-","M","M","-","D","D">>,
      <<"M","M","/","D","D","/","Y","Y","Y","Y">>,
      <<"M","/","D","/","Y","Y","Y","Y">>, <<"M","/","D","/","Y","Y">>,
      <<"D","D","/","M","M","/","Y","Y","Y","Y">>,
      <<"M","M","-","D","D","-","Y","Y","Y","Y">>,
      <<"D","D","-","M","M","-","Y","Y","Y","Y">>>>

IsLetter(c) ==
    \E i \in 1..Len(UpperChars) : UpperChars[i] = c \/ LowerChars[i] = c

\* The variant that hands every string to the engine's own parser.
LooksLikeDate_always(value) == TRUE

\* /[\/\-\s]/.test(value) || /[a-zA-Z]/.test(value)
LooksLikeDate(value) ==
    \E i \in 1..Len(value) :
        value[i] \in {"/", "-"} \cup Whitespace \/ IsLetter(value[i])

\* parseAutoDate.  nativeOk says whether the engine's `new Date(value)`
\* denotes a valid instant; that parse is implementation-defined.
parseAutoDate(value, nativeOk) ==
    CHOOSE parsed \in
        {IF \E i \in DOMAIN tried : tried[i] # Null
         THEN tried[CHOOSE i \in DOMAIN tried :
                       /\ tried[i] # Null
                       /\ \A j \in 1..(i - 1) : tried[j] = Null]
         ELSE IF LooksLikeDate(value) /\ nativeOk THEN NativeDate
         ELSE Null :
            tried \in {[i \in 1..Len(AutoDateFormats) |->
                           ParseExplicitDate(value, AutoDateFormats[i])]}} : TRUE

\* n/a and - stand for an absent value
IsAbsentMarker(trimmed) == ToLowerCase(trimmed) = <<"n","/","a">> \/ trimmed = <<"-">>

parseDateWithFormat(value, format, nativeOk) ==
    CHOOSE parsed \in
        {IF value = <<>> THEN Null
         ELSE IF trimmed = <<>> \/ IsAbsentMarker(trimmed) THEN Null
         ELSE IF format = "auto" THEN parseAutoDate(trimmed, nativeOk)
         ELSE ParseExplicitDate(trimmed, format) :
            trimmed \in {Trim(value)}} : TRUE

\* Date strings: valid and invalid days of the month, leap days, a year
\* below 100, day-first and year-first orders, short forms, padding, the
\* absent markers, purely numeric strings, and text that is no date.
DateStrings ==
    {<<"0","2","/","3","0","/","2","0","2","4">>,
     <<"0","2","/","2","8","/","2","0","2","4">>,
     <<"2","/","2","9","/","2","0","2","4">>,
     <<"0","2","/","2","9","/","2","0","2","3">>,
     <<"0","2","/","2","9","/","1","9","0","0">>,
     <<"1","2","/","3","1","/","1","9","9","9">>,
     <<"0","1","/","0","1","/","0","0","5","0">>,
     <<"3","1","/","1","2","/","2","0","2","4">>,
     <<"3","1","/","0","4","/","2","0","2","4">>,
     <<"2","0","2","4","-","0","2","-","2","9">>,
     <<"2","0","2","3","-","0","2","-","2","9">>,
     <<"2","0","2","4","-","0","4","-","3","1">>,
     <<"4","/","3","1","/","2","4">>,
     <<"1","/","5","/","2","4">>, <<"0","2","-","3","0","-","2","0","2","4">>,
     <<"2","9","-","0","2","-","2","0","2","4">>,
     <<"1","1","-","3","1","-","2","0","2","3">>,
     <<" ","0","2","/","2","8","/","2","0","2","4"," ">>, <<"a","b","c">>,
     <<"1","8","5">>, <<"1",".","5">>, <<"2","0","2","4","0","2","2","9">>,
     <<"n","/","a">>, <<"-">>,
     <<" "," ">>, <<>>}

ParseDateCalls ==
    {[fn |-> "parseDateWithFormat", value |-> v, format |-> DateFormats[f]] :
        v \in DateStrings, f \in 1..Len(DateFormats)}

----------------------------------------------------------------------------
(* Number parsing and the application of a FieldTransformation *)

NumberFormats == <<"auto", "plain", "currency", "percentage", "european">>

\* The euro and pound signs, each one character of the text
Euro == "EUR"
Pound == "GBP"

CurrencySigns == {"$", Euro, Pound}

\* s with every character outside `keep` removed
RECURSIVE KeepChars(_, _)
KeepChars(s, keep) ==
    IF s = <<>> THEN <<>>
    ELSE IF Head(s) \in keep THEN <<Head(s)>> \o KeepChars(Tail(s), keep)
    ELSE KeepChars(Tail(s), keep)

\* String.prototype.replace with a string pattern: the first occurrence only
ReplaceFirst(s, c, by) ==
    IF \E i \in 1..Len(s) : s[i] = c
    THEN LET i == CHOOSE j \in 1..Len(s) : s[j] = c /\ \A l \in 1..(j - 1) : s[l] # c
         IN  SubSeq(s, 1, i - 1) \o <<by>> \o SubSeq(s, i + 1, Len(s))
    ELSE s

\* the text the switch over the format hands to parseFloat
CleanNumber(strValue, format) ==
    IF format = "currency"
    THEN RemoveChars(strValue, CurrencySigns \cup {","} \cup Whitespace)
    ELSE IF format = "percentage"
    THEN RemoveChars(strValue, {"%"} \cup Whitespace)
    ELSE IF format = "european"
    THEN ReplaceFirst(RemoveChars(RemoveChars(strValue, Whitespace), {"."}),
                      ",", ".")
    ELSE KeepChars(strValue, SeqRange(Digits) \cup {".", "-"})

\* (\.\d{3})* up to the end of the text
RECURSIVE DotGroups(_)
DotGroups(s) ==
    \/ s = <<>>
    \/ /\ Len(s) >= 4
       /\ s[1] = "."
       /\ AllDigits(SubSeq(s, 2, 4))
       /\ DotGroups(SubSeq(s, 5, Len(s)))

\* /^\d{1,3}(\.\d{3})*,\d+$/
EuropeanPattern(value) ==
    \E c \in 1..Len(value) :
        /\ value[c] = ","
        /\ c < Len(value)
        /\ AllDigits(SubSeq(value, c + 1, Len(value)))
        /\ LET lead == DigitRun(value, 1)
           IN  /\ lead \in 1..3
               /\ lead < c
               /\ DotGroups(SubSeq(value, lead + 1, c - 1))

\* the format parseAutoNumber settles on
AutoNumberFormat(value) ==
    IF EuropeanPattern(value) THEN "european"
    ELSE IF value[1] \in CurrencySigns \/ value[Len(value)] \in CurrencySigns
    THEN "currency"
    ELSE IF value[Len(value)] = "%" THEN "percentage"
    ELSE "currency"

\* parseFloat of the cleaned text, null for NaN
ParseCleaned(strValue, format) ==
    CHOOSE number \in
        {IF IsNaN(parsed) THEN Null ELSE parsed :
            parsed \in {ParseFloat(CleanNumber(strValue, format))}} : TRUE

parseAutoNumber(value) == ParseCleaned(value, AutoNumberFormat(value))

\* parseNumberWithFormat of a raw cell
parseNumberWithFormat(value, format) ==
    IF value.t \in {"null", "undefined"} THEN Null
    ELSE CHOOSE number \in
            {IF strValue = <<>> \/ IsAbsentMarker(strValue) THEN Null
             ELSE IF format = "auto" THEN parseAutoNumber(strValue)
             ELSE ParseCleaned(strValue, format) :
                strValue \in {Trim(CellToString(value))}} : TRUE

\* the string a transformation returns: the trimmed text of the cell
TextValue(s) == [k |-> "text", s |-> s]

\* date.toISOString() of a parsed date
IsoString(date) == [k |-> "isoString", date |-> date]

\* applyTransformation; config is a FieldTransformation [type, format], the
\* format "" standing for one that is not set
applyTransformation(value, config, nativeOk) ==
    IF value.t \in {"null", "undefined"} THEN Null
    ELSE CHOOSE transformed \in
            {IF strValue = <<>> \/ IsAbsentMarker(strValue) THEN Null
             ELSE IF config.type = "date"
             THEN CHOOSE iso \in
                     {IF date = Null THEN Null ELSE IsoString(date) :
                         date \in {parseDateWithFormat(strValue,
                                       IF config.format = "" THEN "auto"
                                       ELSE config.format,
                                       nativeOk)}} : TRUE
             ELSE IF config.type = "number"
             THEN parseNumberWithFormat(StrCell(strValue),
                     IF config.format = "" THEN "auto" ELSE config.format)
             ELSE TextValue(strValue) :
                strValue \in {Trim(CellToString(value))}} : TRUE

----------------------------------------------------------------------------
(* Field type detection *)

\* the most samples detectFieldType looks at
SampleLimit == 20

\* String(s ?? '').trim()
SampleText(s) ==
    IF s.t \in {"null", "undefined"} THEN <<>> ELSE Trim(CellToString(s))

\* s.length > 0 && s.toLowerCase() !== 'n/a' && s !== '-'
UsableSample(s) == s # <<>> /\ ToLowerCase(s) # <<"n","/","a">> /\ s # <<"-">>

\* the samples mapped to text, filtered and cut to the first twenty
validSamplesOf(samples) ==
    CHOOSE r \in
        {SubSeq(kept, 1, IF Len(kept) < SampleLimit THEN Len(kept) ELSE SampleLimit) :
            kept \in {SelectSeq([i \in 1..Len(list) |-> SampleText(list[i])],
                                UsableSample) : list \in {samples}}} : TRUE

\* the number of samples parseAutoDate reads a date from; nativeDates is the
\* set of strings the engine's own parser accepts
dateMatchesOf(validSamples, nativeDates) ==
    Cardinality({i \in 1..Len(validSamples) :
                    parseAutoDate(validSamples[i],
                                  validSamples[i] \in nativeDates) # Null})

numberMatchesOf(validSamples) ==
    Cardinality({i \in 1..Len(validSamples) :
                    parseAutoNumber(validSamples[i]) # Null})

\* count / total >= 0.7
ReachesThreshold(count, total) == 10 * count >= 7 * total

\* the type and confidence for the usable samples and the two counts; the
\* confidence of the fallback to text is a parameter
Classified(total, dateMatches, numberMatches, fallback) ==
    IF total = 0 THEN [type |-> "text", confidence |-> Zero]
    ELSE IF ReachesThreshold(dateMatches, total)
    THEN [type |-> "date", confidence |-> Rat(dateMatches, total)]
    ELSE IF ReachesThreshold(numberMatches, total)
    THEN [type |-> "number", confidence |-> Rat(numberMatches, total)]
    ELSE [type |-> "text", confidence |-> fallback]

\* The variant that never tries the samples as dates.
detectFieldType_noDates(samples, nativeDates) ==
    CHOOSE r \in
        {Classified(Len(validSamples), 0, numberMatchesOf(validSamples), Int2Num(1)) :
            validSamples \in {validSamplesOf(samples)}} : TRUE

\* detectFieldType: the type and the confidence returned (the format
\* suggested beside them comes from detectDateFormat and detectNumberFormat)
detectFieldType(samples, nativeDates) ==
    CHOOSE r \in
        {Classified(Len(validSamples), dateMatchesOf(validSamples, nativeDates),
                    numberMatchesOf(validSamples), Int2Num(1)) :
            validSamples \in {validSamplesOf(samples)}} : TRUE

\* Sample cells: purely numeric strings, a date, a currency amount, text,
\* padded text, the absent markers, the empty string and null
SampleCells ==
    {StrCell(<<"1","8","5">>), StrCell(<<"1",".","5">>), StrCell(<<"0","2","/","2","8","/","2","0","2","4">>),
     StrCell(<<"$","2","0">>), StrCell(<<"a","b","c">>), StrCell(<<" ","N","/","A"," ">>), StrCell(<<"-">>),
     StrCell(<<>>), NullCell}

MaxSamples == 2

Repeat(cell, n) == [i \in 1..n |-> cell]

\* Columns longer than the short lists: dates at, below and above seven in
\* ten, numbers at and below fourteen in twenty, twenty texts followed by
\* dates, absent markers before twenty dates, and purely numeric columns.
LongSampleLists ==
    {Repeat(StrCell(<<"0","2","/","2","8","/","2","0","2","4">>), 7) \o Repeat(StrCell(<<"a","b","c">>), 3),
     Repeat(StrCell(<<"0","2","/","2","8","/","2","0","2","4">>), 6) \o Repeat(StrCell(<<"1","8","5">>), 4),
     Repeat(StrCell(<<"a","b","c">>), 3) \o Repeat(StrCell(<<"1","8","5">>), 7),
     Repeat(StrCell(<<"1","8","5">>), 14) \o Repeat(StrCell(<<"a","b","c">>), 6),
     Repeat(StrCell(<<"1","8","5">>), 13) \o Repeat(StrCell(<<"a","b","c">>), 7),
     Repeat(StrCell(<<"a","b","c">>), 20) \o Repeat(StrCell(<<"0","2","/","2","8","/","2","0","2","4">>), 9),
     Repeat(StrCell(<<" ","N","/","A"," ">>), 3) \o Repeat(StrCell(<<"0","2","/","2","8","/","2","0","2","4">>), 20)
        \o Repeat(StrCell(<<"a","b","c">>), 9),
     Repeat(StrCell(<<"1","8","5">>), 20) \o Repeat(StrCell(<<"0","2","/","2","8","/","2","0","2","4">>), 2),
     Repeat(StrCell(<<"1",".","5">>), 3) \o Repeat(StrCell(<<"1","8","5">>), 3)}

SampleLists ==
    UNION {[1..n -> SampleCells] : n \in 0..MaxSamples} \cup LongSampleLists

\* the sample texts with a separator or a letter that match no explicit
\* format: the ones handed to the engine's own date parser
NativeCandidates == {<<"a","b","c">>}

DetectFieldTypeCalls ==
    {[fn |-> "detectFieldType", samples |-> l] : l \in SampleLists}

TransformCalls == SafeDivideCalls \cup ParseDateCalls \cup DetectFieldTypeCalls

TransformInit ==
    /\ fnCall \in TransformCalls
    /\ fnResult = Pending
    /\ DetectIdle
    /\ NormIdle
    /\ MetricsIdle
    /\ StoreIdle
    /\ ScanIdle

CallSafeDivide ==
    /\ fnResult = Pending
    /\ fnCall.fn = "safeDivide"
    /\ fnResult' = safeDivide(fnCall.numerator, fnCall.denominator)
    /\ UNCHANGED <<fnCall, detectVars, normVars, metricVars, storeVars, scanVars>>

\* The engine's own parser is consulted only under the auto format.
CallParseDateWithFormat ==
    /\ fnResult = Pending
    /\ fnCall.fn = "parseDateWithFormat"
    /\ \E nativeOk \in (IF fnCall.format = "auto" THEN BOOLEAN ELSE {FALSE}) :
          fnResult' = parseDateWithFormat(fnCall.value, fnCall.format, nativeOk)
    /\ UNCHANGED <<fnCall, detectVars, normVars, metricVars, storeVars, scanVars>>

CallDetectFieldType ==
    /\ fnResult = Pending
    /\ fnCall.fn = "detectFieldType"
    /\ \E nativeDates \in SUBSET NativeCandidates :
          fnResult' = detectFieldType(fnCall.samples, nativeDates)
    /\ UNCHANGED <<fnCall, detectVars, normVars, metricVars, storeVars, scanVars>>

Returned == fnResult # Pending

TransformNext ==
    \/ CallSafeDivide
    \/ CallParseDateWithFormat
    \/ CallDetectFieldType

SpecTransform == TransformInit /\ [][TransformNext]_vars

----------------------------------------------------------------------------
(* Claims about the Value Transformation Layer *)

\* C11: for every numerator and denominator, a denominator that is 0,
\* negative, NaN or infinite included, safeDivide returns a finite number:
\* 0 when the denominator is 0 or not finite or the quotient is not finite,
\* and numerator / denominator otherwise.
C11_SafeDivideFinite ==
    (Returned /\ fnCall.fn = "safeDivide") =>
        LET quotient == NumDiv(fnCall.numerator, fnCall.denominator)
        IN  /\ IsFinite(fnResult)
            /\ fnResult = IF \/ fnCall.denominator = Zero
                             \/ fnCall.denominator \in {NaN, PosInf, NegInf}
                             \/ quotient \in {NaN, PosInf, NegInf}
                          THEN Zero
                          ELSE quotient

\* An infinite numerator over a negative denominator: the quotient is
\* -Infinity and 0 is returned.
C11_Witness ==
    /\ Returned
    /\ fnCall.fn = "safeDivide"
    /\ fnCall.numerator = PosInf
    /\ fnCall.denominator = Int2Num(-2)
    /\ fnResult = Zero

\* the explicit formats: every format but auto
ExplicitFormat(format) == format # "auto"

\* the day exists in the Gregorian calendar
RealCalendarDate(year, month, day) ==
    /\ month \in 1..12
    /\ day >= 1
    /\ day <= (IF month = 2
               THEN (IF year % 400 = 0 \/ (year % 4 = 0 /\ year % 100 # 0)
                     THEN 29 ELSE 28)
               ELSE IF month \in {4, 6, 9, 11} THEN 30 ELSE 31)

\* C15: for every explicit format and every string matching the format's
\* pattern, parseDateWithFormat returns null when the (year, month, day) read
\* is not a real calendar date, and otherwise a date whose year, month and
\* day are the components read.
C15_CalendarValidation ==
    (/\ Returned
     /\ fnCall.fn = "parseDateWithFormat"
     /\ ExplicitFormat(fnCall.format)
     /\ DateMatch(Trim(fnCall.value), fnCall.format) # <<>>) =>
        LET c == DateComponents(DateMatch(Trim(fnCall.value), fnCall.format),
                                fnCall.format)
        IN  IF RealCalendarDate(c.year, c.month, c.day)
            THEN fnResult = DateOf(c.year, c.month, c.day)
            ELSE fnResult = Null

----------------------------------------------------------------------------
\* DataProvider (the uploaded-file store) and CsvUploader

MAX_FILES == 3

MAX_FILE_SIZE_BYTES == 10 * 1024 * 1024

\* an optional property of an uploaded file that has not been set
NotSet == [set |-> FALSE]

SpendHeader == <<"S","p","e","n","d">>
SourceHeader == <<"S","o","u","r","c","e">>

RawRowOf(entityHeader, entityCell, spendCell) ==
    [h \in {entityHeader, SpendHeader} |->
        IF h = entityHeader THEN entityCell ELSE spendCell]

\* The files a user can select, each with what Papa.parse reports for it:
\* two well-formed files keyed by Campaign, one of them with a row whose
\* Campaign cell is empty and a row whose Campaign cell is the number 0,
\* one keyed by Source, and one that is not CSV.
FilePool ==
    {[name |-> <<"a",".","c","s","v">>, type |-> "text/csv", size |-> 40, errors |-> FALSE,
      fields |-> <<Campaign, SpendHeader>>,
      data |-> <<RawRowOf(Campaign, StrCell(<<"A","l","p","h","a">>), NumCell(Int2Num(10))),
                 RawRowOf(Campaign, StrCell(<<"B","e","t","a">>), StrCell(<<"$","2","0">>))>>],
     [name |-> <<"b",".","c","s","v">>, type |-> "text/csv", size |-> 30, errors |-> FALSE,
      fields |-> <<SourceHeader, SpendHeader>>,
      data |-> <<RawRowOf(SourceHeader, StrCell(<<"A","l","p","h","a">>), NumCell(Int2Num(5)))>>],
     [name |-> <<"c",".","c","s","v">>, type |-> "", size |-> 35, errors |-> FALSE,
      fields |-> <<Campaign, SpendHeader>>,
      data |-> <<RawRowOf(Campaign, StrCell(<<>>), NumCell(Int2Num(7))),
                 RawRowOf(Campaign, NumCell(Zero), NumCell(Int2Num(2))),
                 RawRowOf(Campaign, StrCell(<<" ","A","l","p","h","a"," ">>), NumCell(Int2Num(1)))>>],
     [name |-> <<"n",".","t","x","t">>, type |-> "text/plain", size |-> 12, errors |-> FALSE,
      fields |-> <<>>, data |-> <<>>]}

\* autoDetectColumns(results.meta.fields) for each file of the pool
DetectedMapping == [file \in FilePool |-> autoDetectColumns(file.fields)]

\* the most files handed over by one drop or one file dialogue
MaxDrop == 2

\* the most file ids handed out, parses in flight included
MaxUploads == 4

DropLists == UNION {[1..n -> FilePool] : n \in 1..MaxDrop}

RequiredFields == <<"entity", "spend", "leads", "quotes", "sales">>

\* the mappings a user can give a file on the mapping page: every required
\* field on a column of the file
MappingChoices ==
    {[f \in SeqRange(RequiredFields) |->
        IF f = "entity" THEN Campaign ELSE SpendHeader]}

\* validateRequiredFields(mapping).valid
validateRequiredFields(m) ==
    \A i \in 1..Len(RequiredFields) :
        /\ HasField(m, RequiredFields[i])
        /\ Trim(m[RequiredFields[i]]) # <<>>

TransformConfigChoices ==
    {[spend |-> [type |-> "number", format |-> "european"]]}

ValidationSummaryChoices ==
    {[totalRows |-> 2, validRows |-> 1, invalidRows |-> 1]}

EndsWith(s, p) ==
    /\ Len(s) >= Len(p)
    /\ SubSeq(s, Len(s) - Len(p) + 1, Len(s)) = p

FileIds(files) == {files[i].id : i \in 1..Len(files)}

\* The variant that does not look at the number of files.
addFile_noCap(prev, file, id) ==
    Append(prev, [id |-> id, fileName |-> file.fileName, headers |-> file.headers,
                  data |-> file.data, mapping |-> file.mapping,
                  rowCount |-> file.rowCount, transformConfig |-> NotSet,
                  validationSummary |-> NotSet])

\* the updater addFile passes to setUploadedFiles
addFile(prev, file, id) ==
    IF Len(prev) >= MAX_FILES THEN prev
    ELSE Append(prev, [id |-> id, fileName |-> file.fileName,
                       headers |-> file.headers, data |-> file.data,
                       mapping |-> file.mapping, rowCount |-> file.rowCount,
                       transformConfig |-> NotSet,
                       validationSummary |-> NotSet])

\* prev.filter(f => f.id !== fileId)
removeFile(prev, fileId) ==
    LET Other(f) == f.id # fileId
    IN  SelectSeq(prev, Other)

updateFileMapping(prev, fileId, m) ==
    [i \in 1..Len(prev) |->
        IF prev[i].id = fileId THEN [prev[i] EXCEPT !.mapping = m] ELSE prev[i]]

updateFileTransformConfig(prev, fileId, config) ==
    [i \in 1..Len(prev) |->
        IF prev[i].id = fileId THEN [prev[i] EXCEPT !.transformConfig = config]
        ELSE prev[i]]

\* The variant that keeps a summary already stored.
updateFileValidation_keepsStored(prev, fileId, summary) ==
    [i \in 1..Len(prev) |->
        IF prev[i].id = fileId /\ prev[i].validationSummary = NotSet
        THEN [prev[i] EXCEPT !.validationSummary = summary]
        ELSE prev[i]]

updateFileValidation(prev, fileId, summary) ==
    [i \in 1..Len(prev) |->
        IF prev[i].id = fileId THEN [prev[i] EXCEPT !.validationSummary = summary]
        ELSE prev[i]]

\* the checks of processFile before Papa.parse is started, against the
\* files of the render the handler belongs to
processFilePasses(file, files) ==
    /\ Len(files) < MAX_FILES
    /\ ~\E i \in 1..Len(files) : files[i].fileName = file.name
    /\ (file.type = "text/csv" \/ EndsWith(file.name, <<".","c","s","v">>))
    /\ file.size <= MAX_FILE_SIZE_BYTES
    /\ file.size # 0

\* files.slice(0, availableSlots).forEach(processFile): the files whose
\* parse is started
filesToParse(files) ==
    LET availableSlots == MAX_FILES - Len(uploadedFiles)
        n == IF Len(files) < availableSlots THEN Len(files) ELSE availableSlots
        Passes(file) == processFilePasses(file, uploadedFiles)
    IN  SelectSeq(SubSeq(files, 1, n), Passes)

\* the checks of the complete callback
parseUsable(file) ==
    /\ ~file.errors
    /\ file.fields # <<>>
    /\ file.data # <<>>

\* the parses in flight once those of the files of a list are started
RECURSIVE WithStarted(_, _)
WithStarted(inFlight, files) ==
    IF files = <<>> THEN inFlight
    ELSE WithStarted(inFlight, SubSeq(files, 1, Len(files) - 1))
         (+) SetToBag({files[Len(files)]})

\* The page shown once the effects of a render have run: the mapping page,
\* the configuration page and the dashboard send the user to the upload page
\* when there is nothing to show. A stored file always has rows, so the
\* pages that test data.length and the one that tests uploadedFiles.length
\* agree.
Routed(path, files) ==
    IF path # "/" /\ Len(files) = 0 THEN "/" ELSE path

StoreInit ==
    /\ uploadedFiles = <<>>
    /\ multiFileMode = "null"
    /\ parsing = EmptyBag
    /\ nextFileId = 0
    /\ warned = FALSE
    /\ location = "/"
    /\ DetectIdle
    /\ NormIdle
    /\ MetricsIdle
    /\ TransformIdle
    /\ ScanIdle

\* handleDrop and handleFileInput of the uploader, which the upload page shows
HandleDrop ==
    \E files \in DropLists :
        /\ location = "/"
        /\ filesToParse(files) # <<>>
        /\ nextFileId + BagCardinality(parsing) + Len(filesToParse(files))
              <= MaxUploads
        /\ parsing' = WithStarted(parsing, filesToParse(files))
        /\ UNCHANGED <<uploadedFiles, multiFileMode, nextFileId, warned, location>>
        /\ UNCHANGED <<detectVars, normVars, metricVars, transformVars, scanVars>>

\* The end of one parse in flight: the error callback when the file could
\* not be read, the complete callback otherwise.
ParseComplete ==
    \E file \in BagToSet(parsing), readable \in BOOLEAN :
        LET added == [fileName |-> file.name, headers |-> file.fields,
                      data |-> file.data,
                      mapping |-> DetectedMapping[file],
                      rowCount |-> Len(file.data)]
        IN  /\ parsing' = parsing (-) SetToBag({file})
            /\ IF readable /\ parseUsable(file)
               THEN /\ uploadedFiles' = addFile(uploadedFiles, added, nextFileId)
                    /\ nextFileId' = IF uploadedFiles' # uploadedFiles
                                     THEN nextFileId + 1 ELSE nextFileId
                    /\ warned' = (warned \/ Len(uploadedFiles) >= MAX_FILES)
               ELSE UNCHANGED <<uploadedFiles, nextFileId, warned>>
            /\ UNCHANGED <<multiFileMode, location>>
            /\ UNCHANGED <<detectVars, normVars, metricVars, transformVars, scanVars>>

\* the remove button of FileUploadList, which the upload page shows
RemoveFile ==
    \E fileId \in FileIds(uploadedFiles) :
        /\ location = "/"
        /\ uploadedFiles' = removeFile(uploadedFiles, fileId)
        /\ UNCHANGED <<multiFileMode, parsing, nextFileId, warned, location>>
        /\ UNCHANGED <<detectVars, normVars, metricVars, transformVars, scanVars>>

\* applyMappingToAll of the configuration page, offered in compare mode:
\* the mapping of the file of the active tab is given to every other file
ApplyMappingToAll ==
    \E k \in 1..Len(uploadedFiles) :
        /\ location = "/configure"
        /\ multiFileMode = "compare" /\ Len(uploadedFiles) > 1
        /\ uploadedFiles' =
              [i \in 1..Len(uploadedFiles) |->
                  IF uploadedFiles[i].id # uploadedFiles[k].id
                  THEN updateFileMapping(uploadedFiles, uploadedFiles[i].id,
                                         uploadedFiles[k].mapping)[i]
                  ELSE uploadedFiles[i]]
        /\ UNCHANGED <<multiFileMode, parsing, nextFileId, warned, location>>
        /\ UNCHANGED <<detectVars, normVars, metricVars, transformVars, scanVars>>

\* the legacy setter, as handleSave of the plain mapping page calls it: the
\* first file's mapping is set and the configuration page is shown
SetMapping ==
    \E m \in MappingChoices :
        /\ location = "/map-columns"
        /\ Len(uploadedFiles) > 0
        /\ uploadedFiles' = updateFileMapping(uploadedFiles, uploadedFiles[1].id, m)
        /\ location' = "/configure"
        /\ UNCHANGED <<multiFileMode, parsing, nextFileId, warned>>
        /\ UNCHANGED <<detectVars, normVars, metricVars, transformVars, scanVars>>

\* handleSave of the validating mapping page: setMapping, setTransformConfig
\* and setValidationSummary, each updating the first file, then the
\* configuration page
HandleSave ==
    \E m \in MappingChoices, config \in TransformConfigChoices,
       summary \in ValidationSummaryChoices :
        /\ location = "/map-columns"
        /\ validateRequiredFields(m)
        /\ Len(uploadedFiles) > 0
        /\ location' = "/configure"
        /\ uploadedFiles' =
              updateFileValidation(
                  updateFileTransformConfig(
                      updateFileMapping(uploadedFiles, uploadedFiles[1].id, m),
                      uploadedFiles[1].id, config),
                  uploadedFiles[1].id, summary)
        /\ UNCHANGED <<multiFileMode, parsing, nextFileId, warned>>
        /\ UNCHANGED <<detectVars, normVars, metricVars, transformVars, scanVars>>

\* ModeSelector, rendered on the upload page from two files on
SetMultiFileMode ==
    \E mode \in {"merge", "compare"} :
        /\ location = "/"
        /\ Len(uploadedFiles) >= 2
        /\ multiFileMode' = mode
        /\ UNCHANGED <<uploadedFiles, parsing, nextFileId, warned, location>>
        /\ UNCHANGED <<detectVars, normVars, metricVars, transformVars, scanVars>>

ResetData ==
    /\ uploadedFiles' = <<>>
    /\ multiFileMode' = "null"
    /\ location' = Routed(location, <<>>)
    /\ UNCHANGED <<parsing, nextFileId, warned>>
    /\ UNCHANGED <<detectVars, normVars, metricVars, transformVars, scanVars>>

\* the number of rows of a list of files
RECURSIVE SumLens(_)
SumLens(files) ==
    IF files = <<>> THEN 0
    ELSE SumLens(SubSeq(files, 1, Len(files) - 1)) + Len(files[Len(files)].data)

\* uploadedFiles.flatMap(f => f.data)
RECURSIVE FlatMapData(_)
FlatMapData(files) ==
    IF files = <<>> THEN <<>>
    ELSE FlatMapData(SubSeq(files, 1, Len(files) - 1)) \o files[Len(files)].data

\* The variant that concatenates the files in every mode.
data_mergesAlways ==
    IF Len(uploadedFiles) = 0 THEN <<>> ELSE FlatMapData(uploadedFiles)

\* the rows the context hands to the pages
data ==
    IF Len(uploadedFiles) = 0 THEN <<>>
    ELSE IF multiFileMode = "merge" THEN FlatMapData(uploadedFiles)
    ELSE uploadedFiles[1].data

\* the mapping the context hands to the pages
contextMapping ==
    IF Len(uploadedFiles) = 0 THEN NoMapping ELSE uploadedFiles[1].mapping

isCompareMode == multiFileMode = "compare" /\ Len(uploadedFiles) > 1

effectiveMapping ==
    IF isCompareMode /\ Len(uploadedFiles) > 0 THEN uploadedFiles[1].mapping
    ELSE contextMapping

\* normalizeData as a function of its arguments; dateOks[i] is the outcome
\* of the date parse of row i
RECURSIVE normalizeData(_, _, _)
normalizeData(rows, m, dateOks) ==
    IF rows = <<>> THEN <<>>
    ELSE LET n == Len(rows)
             before == normalizeData(SubSeq(rows, 1, n - 1), m, dateOks)
             row == normalizeRow(rows[n], m, dateOks[n])
         IN  IF row # NullRow THEN Append(before, row) ELSE before

\* no mapping of the store names a date column
NoDates(rows) == [i \in 1..Len(rows) |-> FALSE]

\* the rows and the metrics of the configuration page
normalizedData == normalizeData(data, effectiveMapping, NoDates(data))

pageMetrics == calculateAllMetrics(normalizedData)

\* The per-file computation of compare mode: every file normalised with its
\* own mapping and aggregated on its own, one result per file in upload
\* order.
calculateMultiFileMetrics(files) ==
    [i \in 1..Len(files) |->
        LET result == calculateAllMetrics(
                          normalizeData(files[i].data, files[i].mapping,
                                        NoDates(files[i].data)))
        IN  [fileName |-> files[i].fileName, fileId |-> files[i].id,
             global |-> result.global, entities |-> result.entities]]

\* Navigation between the pages

BASE_METRICS == <<"spend", "leads", "quotes", "sales">>

\* METRIC_DEFINITIONS[id].requiredFields of the metrics the configuration
\* page offers
DERIVED_METRICS ==
    [cpl |-> {"spend", "leads"}, cpq |-> {"spend", "quotes"},
     cpa |-> {"spend", "sales"}, quoteRate |-> {"leads", "quotes"},
     quoteToClose |-> {"quotes", "sales"}, closeRate |-> {"leads", "sales"}]

canCalculateMetric(metricId, m) ==
    \A field \in DERIVED_METRICS[metricId] : HasField(m, field)

\* the base metrics whose total is a positive number
availableBaseMetrics ==
    {id \in SeqRange(BASE_METRICS) : NumPositive(pageMetrics.global[id])}

availableDerivedMetrics ==
    {id \in DOMAIN DERIVED_METRICS : canCalculateMetric(id, effectiveMapping)}

\* the selections the configuration page can hold: the available metrics
\* are selected when the page loads and the user toggles any of them
MetricSelections ==
    [base : SUBSET availableBaseMetrics, derived : SUBSET availableDerivedMetrics]

canGenerate(selected) == selected.derived # {} \/ selected.base # {}

\* the button of the upload page, shown once there are rows
GoConfigure ==
    /\ location = "/"
    /\ Len(data) > 0
    /\ location' = "/configure"
    /\ UNCHANGED <<uploadedFiles, multiFileMode, parsing, nextFileId, warned>>
    /\ UNCHANGED <<detectVars, normVars, metricVars, transformVars, scanVars>>

\* the back button of the configuration page that leads to the mapping page
GoMapColumns ==
    /\ location = "/configure"
    /\ location' = "/map-columns"
    /\ UNCHANGED <<uploadedFiles, multiFileMode, parsing, nextFileId, warned>>
    /\ UNCHANGED <<detectVars, normVars, metricVars, transformVars, scanVars>>

\* handleGenerate of the configuration page, behind the button that is
\* disabled while no metric is selected
HandleGenerate ==
    /\ location = "/configure"
    /\ {selected \in MetricSelections : canGenerate(selected)} # {}
    /\ location' = "/dashboard"
    /\ UNCHANGED <<uploadedFiles, multiFileMode, parsing, nextFileId, warned>>
    /\ UNCHANGED <<detectVars, normVars, metricVars, transformVars, scanVars>>

\* the home and back buttons of the mapping and configuration pages
GoHome ==
    /\ location \in {"/map-columns", "/configure"}
    /\ location' = "/"
    /\ UNCHANGED <<uploadedFiles, multiFileMode, parsing, nextFileId, warned>>
    /\ UNCHANGED <<detectVars, normVars, metricVars, transformVars, scanVars>>

\* the back button of the dashboard
BackToConfigure ==
    /\ location = "/dashboard"
    /\ location' = "/configure"
    /\ UNCHANGED <<uploadedFiles, multiFileMode, parsing, nextFileId, warned>>
    /\ UNCHANGED <<detectVars, normVars, metricVars, transformVars, scanVars>>

StoreNext ==
    \/ HandleDrop
    \/ ParseComplete
    \/ RemoveFile
    \/ ApplyMappingToAll
    \/ SetMapping
    \/ HandleSave
    \/ SetMultiFileMode
    \/ ResetData
    \/ GoConfigure
    \/ GoMapColumns
    \/ HandleGenerate
    \/ GoHome
    \/ BackToConfigure

SpecStore == StoreInit /\ [][StoreNext]_vars

----------------------------------------------------------------------------
(* Validation & Preview Layer *)

\* row[column]
RowCell(row, column) ==
    IF column \in DOMAIN row THEN row[column] ELSE UndefinedCell

\* Object.entries of the mapping the scans are run with: two mapped fields
\* and one whose column is not set
ScanEntries ==
    <<[field |-> "entity", column |-> <<"C","a","m","p","a","i","g","n">>],
      [field |-> "spend", column |-> SpendHeader],
      [field |-> "leads", column |-> <<>>]>>

\* The rows scanned: a number, text, an absent marker and an empty cell
\* under Spend
ScanRowPool ==
    {RawRowOf(<<"C","a","m","p","a","i","g","n">>, StrCell(<<"A","l","p","h","a">>), StrCell(s)) :
        s \in {<<"1","0">>, <<"a","b","c">>, <<"n","/","a">>, <<>>}}

MaxScanRows == 2

MaxChunkSize == 2

ScanDataLists == UNION {[1..n -> ScanRowPool] : n \in 0..MaxScanRows}

NumberAuto == [type |-> "number", format |-> ""]

\* TransformationConfig values: Spend as a number, both columns as numbers,
\* and none
ScanTransformChoices ==
    {[h \in {SpendHeader} |-> NumberAuto],
     [h \in {<<"C","a","m","p","a","i","g","n">>, SpendHeader} |-> NumberAuto],
     [h \in {} |-> NumberAuto]}


\* value === null || value === undefined || String(value).trim() === ''
IsEmptyCell(value) ==
    value.t \in {"null", "undefined"} \/ Trim(CellToString(value)) = <<>>

\* transforms?.[column] ?? { type: 'text' }
TransformFor(transforms, column) ==
    IF column \in DOMAIN transforms THEN transforms[column]
    ELSE [type |-> "text", format |-> ""]

\* the transformation applied with the engine's Date parser accepting the
\* strings of dates
Transformed(value, transform, dates) ==
    applyTransformation(value, transform, SampleText(value) \in dates)

\* a cell that is counted as an error: not empty, transformed to null, and
\* the type is not text
FailsTransformation(value, transform, dates) ==
    /\ ~IsEmptyCell(value)
    /\ Transformed(value, transform, dates) = Null
    /\ transform.type # "text"

\* the cells getSampleValues does not skip
SampleCandidate(value) ==
    /\ value.t \notin {"null", "undefined"}
    /\ Trim(CellToString(value)) # <<>>
    /\ ToLowerCase(Trim(CellToString(value))) # <<"n","/","a">>

\* getSampleValues of one column given as a tuple of cells: the first
\* count cells that are not skipped and whose trimmed text has not been seen
FirstSamples(cells, count) ==
    LET Pushed(i) ==
            /\ SampleCandidate(cells[i])
            /\ \A j \in 1..(i - 1) :
                  SampleCandidate(cells[j])
                     => Trim(CellToString(cells[j])) # Trim(CellToString(cells[i]))
    IN  CHOOSE r \in
            {[k \in 1..(IF Len(order) < count THEN Len(order) ELSE count) |->
                 cells[order[k]]] :
                order \in {SelectSeq([i \in 1..Len(cells) |-> i], Pushed)}} : TRUE

\* the cells of one column, row by row
ColumnCells(rows, column) == [i \in 1..Len(rows) |-> RowCell(rows[i], column)]

getSampleValues(rows, column, count) ==
    CHOOSE r \in {FirstSamples(cells, count) :
                     cells \in {ColumnCells(rows, column)}} : TRUE

\* Math.round(part / whole * 100)
RoundPercent(part, whole) == (200 * part + whole) \div (2 * whole)

NoWarning == [k |-> "undefined"]

\* the warning of validateField for errorCount errors among totalNonEmpty
\* cells
WarningMessage(errorCount, totalNonEmpty) ==
    IF totalNonEmpty > 0 /\ 2 * errorCount > totalNonEmpty
                         /\ errorCount < totalNonEmpty
    THEN [k |-> "mayNotParse", percent |-> RoundPercent(errorCount, totalNonEmpty)]
    ELSE IF totalNonEmpty > 0 /\ errorCount = totalNonEmpty
    THEN [k |-> "noValuesMatch"]
    ELSE NoWarning

\* the result of validateField from the cells of the column, the samples
\* and the number of errors
FieldResult(column, transform, dates, cells, samples, errorCount) ==
    [field |-> column,
     valid |-> errorCount = 0,
     sampleValues |-> samples,
     transformedSamples |->
         [k \in 1..Len(samples) |-> Transformed(samples[k], transform, dates)],
     errorCount |-> errorCount,
     warningMessage |->
         WarningMessage(errorCount,
                        Cardinality({i \in 1..Len(cells) : ~IsEmptyCell(cells[i])})),
     detectedType |-> detectFieldType(samples, dates).type]

\* The variant that skips the absent markers like empty cells.
validateField_skipsAbsent(rows, column, transform, dates) ==
    CHOOSE r \in
        {FieldResult(column, transform, dates, cells, samples,
            Cardinality({i \in 1..Len(cells) :
                /\ FailsTransformation(cells[i], transform, dates)
                /\ ~IsAbsentMarker(Trim(CellToString(cells[i])))})) :
            cells \in {ColumnCells(rows, column)},
            samples \in {getSampleValues(rows, column, 10)}} : TRUE

validateField(rows, column, transform, dates) ==
    CHOOSE r \in
        {FieldResult(column, transform, dates, cells, samples,
            Cardinality({i \in 1..Len(cells) :
                FailsTransformation(cells[i], transform, dates)})) :
            cells \in {ColumnCells(rows, column)},
            samples \in {getSampleValues(rows, column, 10)}} : TRUE

\* the entries of the mapping whose column is set; entries is
\* Object.entries(mapping), a sequence of [field, column]
MappedEntries(entries) ==
    LET Set(e) == e.column # <<>>
    IN  SelectSeq(entries, Set)

\* fieldResults: the result of validateField under each mapped field
FieldResults(rows, entries, transforms, dates) ==
    CHOOSE r \in
        {[f \in {mapped[k].field : k \in 1..Len(mapped)} |->
            CHOOSE result \in
                {validateField(rows, mapped[k].column,
                               TransformFor(transforms, mapped[k].column), dates) :
                    k \in {j \in 1..Len(mapped) :
                              /\ mapped[j].field = f
                              /\ \A l \in (j + 1)..Len(mapped) :
                                    mapped[l].field # f}} : TRUE] :
            mapped \in {MappedEntries(entries)}} : TRUE

CountTrue(flags) == Cardinality({i \in 1..Len(flags) : flags[i]})

\* rowErrors of generateValidationSummary: the rows with a failing cell in
\* a column whose field result counts an error
SummaryRowErrors(rows, mapped, transforms, dates) ==
    [i \in 1..Len(rows) |->
        \E k \in 1..Len(mapped) :
            /\ validateField(rows, mapped[k].column,
                             TransformFor(transforms, mapped[k].column),
                             dates).errorCount > 0
            /\ FailsTransformation(RowCell(rows[i], mapped[k].column),
                   TransformFor(transforms, mapped[k].column), dates)]

generateValidationSummary(rows, entries, transforms, dates) ==
    CHOOSE summary \in
        {[totalRows |-> Len(rows),
          validRows |-> Len(rows) - totalInvalidRows,
          invalidRows |-> totalInvalidRows,
          fieldResults |-> FieldResults(rows, entries, transforms, dates)] :
            totalInvalidRows \in
                {CountTrue(SummaryRowErrors(rows, MappedEntries(entries),
                                            transforms, dates))}} : TRUE

----------------------------------------------------------------------------
(* validateWithProgress: calls that run chunk by chunk, each chunk in one  *)
(* turn of the event loop, the next one after the timer of the await fires *)

NotRequested == [pc |-> "none"]

\* The variant that looks at the first mapped field only.
RowHasError_firstFieldOnly(row, entries, transforms, dates) ==
    \E mapped \in {MappedEntries(entries)} :
        /\ mapped # <<>>
        /\ FailsTransformation(RowCell(row, mapped[1].column),
                               TransformFor(transforms, mapped[1].column), dates)

\* the inner loop over the mapping for one row: the row has an error when
\* some mapped cell fails its transformation
RowHasError(row, entries, transforms, dates) ==
    \E mapped \in {MappedEntries(entries)} :
        \E k \in 1..Len(mapped) :
            FailsTransformation(RowCell(row, mapped[k].column),
                                TransformFor(transforms, mapped[k].column), dates)

\* the locals after the statements before the loop
ScanEntry(rows, transforms, chunkSize) ==
    [pc |-> "running", transforms |-> transforms, chunkSize |-> chunkSize,
     i |-> 0, processedRows |-> 0,
     rowErrors |-> [r \in 1..Len(rows) |-> FALSE],
     examined |-> <<>>, reports |-> <<>>, result |-> NotSet]

\* The variant that takes the chunk to reach i + chunkSize.
ChunkEnd_noMin(sc, totalRows) == sc.i + sc.chunkSize

\* Math.min(i + chunkSize, totalRows)
ChunkEnd(sc, totalRows) ==
    IF sc.i + sc.chunkSize < totalRows THEN sc.i + sc.chunkSize ELSE totalRows

\* one pass of the loop body, up to the await: the rows of the chunk that
\* starts after row i (counting from 0), then onProgress
ProcessChunk(sc, rows, entries, dates) ==
    CHOOSE after \in
        {[sc EXCEPT
            !.pc = "waiting",
            !.rowErrors =
                [r \in 1..Len(rows) |->
                    IF r > sc.i /\ r <= end
                    THEN sc.rowErrors[r]
                         \/ RowHasError(rows[r], entries, sc.transforms, dates)
                    ELSE sc.rowErrors[r]],
            !.examined = sc.examined \o [k \in 1..(end - sc.i) |-> sc.i + k],
            !.processedRows = sc.processedRows + (end - sc.i),
            !.reports = Append(sc.reports,
                               RoundPercent(sc.processedRows + (end - sc.i),
                                            Len(rows)))] :
            end \in {ChunkEnd(sc, Len(rows))}} : TRUE

\* the statements after the loop: the promise resolves to the summary
FinishScan(sc, rows, entries, dates) ==
    [sc EXCEPT
        !.pc = "resolved",
        !.result = [totalRows |-> Len(rows),
                    validRows |-> Len(rows) - CountTrue(sc.rowErrors),
                    invalidRows |-> CountTrue(sc.rowErrors),
                    fieldResults |->
                        FieldResults(rows, entries, sc.transforms, dates)]]

\* the loop test, then the loop body or the statements after the loop
ContinueScan(locals, rows, entries, dates) ==
    CHOOSE after \in
        {IF sc.i < Len(rows) THEN ProcessChunk(sc, rows, entries, dates)
         ELSE FinishScan(sc, rows, entries, dates) : sc \in {locals}} : TRUE

ScanIds == {1, 2}

ScanInit ==
    /\ scanData \in ScanDataLists
    /\ engineDates \in SUBSET NativeCandidates
    /\ scans = [s \in ScanIds |-> NotRequested]
    /\ resolutions = <<>>
    /\ deliveries = <<>>
    /\ uploadedFiles =
          addFile(<<>>, [fileName |-> <<"a",".","c","s","v">>,
                         headers |-> <<<<"C","a","m","p","a","i","g","n">>, SpendHeader>>,
                         data |-> scanData,
                         mapping |-> [entity |-> <<"C","a","m","p","a","i","g","n">>, spend |-> SpendHeader],
                         rowCount |-> Len(scanData)], 0)
    /\ multiFileMode = "null"
    /\ parsing = EmptyBag
    /\ nextFileId = 1
    /\ warned = FALSE
    /\ location = "/map-columns"
    /\ DetectIdle
    /\ NormIdle
    /\ MetricsIdle
    /\ TransformIdle

\* A call of validateWithProgress: it runs to its first await, or to its
\* end when there are no rows.  The second call is made after the first.
RequestScan(s) ==
    /\ scans[s].pc = "none"
    /\ \A t \in ScanIds : t < s => scans[t].pc # "none"
    /\ \E transforms \in ScanTransformChoices, chunkSize \in 1..MaxChunkSize :
          \E sc \in {ContinueScan(ScanEntry(scanData, transforms, chunkSize),
                                  scanData, ScanEntries, engineDates)} :
              /\ scans' = [scans EXCEPT ![s] = sc]
              /\ resolutions' = IF sc.pc = "resolved" THEN Append(resolutions, s)
                                ELSE resolutions
    /\ UNCHANGED <<scanData, engineDates, deliveries>>
    /\ UNCHANGED <<detectVars, normVars, metricVars, transformVars, storeVars>>

\* a promise has resolved and its continuation has not run yet
ContinuationPending == Len(deliveries) < Len(resolutions)

\* The timer of the await fires: i += chunkSize, then the loop test.  The
\* timers of two calls fire in either order (a timer nested five deep is
\* delayed by the engine, one of a fresh call is not), and none fires
\* before the continuations of the resolved promises have run.
TimerFires(s) ==
    /\ scans[s].pc = "waiting"
    /\ ~ContinuationPending
    /\ \E sc \in {ContinueScan([scans[s] EXCEPT !.i = @ + scans[s].chunkSize],
                               scanData, ScanEntries, engineDates)} :
           /\ scans' = [scans EXCEPT ![s] = sc]
           /\ resolutions' = IF sc.pc = "resolved" THEN Append(resolutions, s)
                             ELSE resolutions
    /\ UNCHANGED <<scanData, engineDates, deliveries>>
    /\ UNCHANGED <<detectVars, normVars, metricVars, transformVars, storeVars>>

\* The caller of validateWithProgress stores the summary the promise
\* resolved to; the continuations run in the order the promises resolved.
DeliverSummary(s) ==
    /\ scans[s].pc = "resolved"
    /\ ContinuationPending
    /\ resolutions[Len(deliveries) + 1] = s
    /\ uploadedFiles' = updateFileValidation(uploadedFiles, uploadedFiles[1].id,
                                          scans[s].result)
    /\ scans' = [scans EXCEPT ![s].pc = "delivered"]
    /\ deliveries' = Append(deliveries, s)
    /\ UNCHANGED <<scanData, engineDates, resolutions>>
    /\ UNCHANGED <<multiFileMode, parsing, nextFileId, warned, location>>
    /\ UNCHANGED <<detectVars, normVars, metricVars, transformVars>>

ScanNext ==
    \/ \E s \in ScanIds : RequestScan(s)
    \/ \E s \in ScanIds : TimerFires(s)
    \/ \E s \in ScanIds : DeliverSummary(s)

SpecScan == ScanInit /\ [][ScanNext]_vars

\* the timer of scan s is set and may fire: TimerFires(s) is enabled
TimerReady(s) == scans[s].pc = "waiting" /\ ~ContinuationPending

\* a step of TimerFires(s): the only step that changes the locals of a
\* scan that waits
TimerFired(s) == scans[s].pc = "waiting" /\ scans'[s] # scans[s]

\* Every timer set fires, and every resolved promise runs its continuation.
\* The condition on the timers is WF_vars(TimerFires(s)), written with the
\* guard of the action in place of ENABLED.
ScanFairness ==
    \A s \in ScanIds :
        /\ WF_vars(DeliverSummary(s))
        /\ []<>(~TimerReady(s)) \/ []<><<TimerFired(s)>>_vars

SpecScanFair == SpecScan /\ ScanFairness

----------------------------------------------------------------------------
(* The Row Normalizer against the Value Transformation Layer *)

NumberTransformations ==
    {[type |-> "number", format |-> NumberFormats[i]] : i \in 1..Len(NumberFormats)}

\* C16: for a mapped numeric column whose configured FieldTransformation
\* parses the row's cell to the number n, the NormalizedRow holds n for that
\* field.
C16_NormalizerAgreesWithTransformation ==
    (RowProcessed /\ normalizedRow # NullRow) =>
        \A f \in NumericFields :
            HasField(colMapping, f) =>
                \A config \in NumberTransformations :
                    LET n == applyTransformation(Cell(LastRow, colMapping[f]),
                                                 config, FALSE)
                    IN  n # Null => normalizedRow[f] = n

----------------------------------------------------------------------------
(* Claims about the order of the resolver's two passes *)

\* the headers claimed before the i-th canonical field is processed
UsedBefore(i) ==
    {mapping[FieldOrder[j]] : j \in {j \in 1..(i - 1) : Mapped(FieldOrder[j])}}

\* positions of the headers, unclaimed and not excluded when the i-th field
\* is processed, that equal the field's k-th pattern
ExactHits(i, k) ==
    {n \in 1..Len(headers) :
        /\ headers[n] \notin UsedBefore(i)
        /\ ~ExcludedFor[headers[n]][FieldOrder[i]]
        /\ NormalizedHeader[headers[n]] = COLUMN_PATTERNS[FieldOrder[i]][k]}

PatternsWithExactHit(i) ==
    {k \in 1..Len(COLUMN_PATTERNS[FieldOrder[i]]) : ExactHits(i, k) # {}}

\* C17: when a field is processed and some unclaimed, not excluded header
\* equals one of its patterns, the field is mapped to a header equal to the
\* earliest such pattern of its list; a header that only contains a pattern
\* is taken only when no pattern has an exact match.  Stated of the field
\* processed last, in every state: each field is the last one once.
C17_ExactMatchBeforeContains ==
    fieldIdx > 0 =>
        LET i == fieldIdx
            field == FieldOrder[i]
            exact == PatternsWithExactHit(i)
        IN  IF exact # {}
            THEN /\ Mapped(field)
                 /\ \E n \in ExactHits(i, CHOOSE k \in exact : \A j \in exact : k <= j) :
                       mapping[field] = headers[n]
            ELSE Mapped(field) =>
                    \E k \in 1..Len(COLUMN_PATTERNS[field]) :
                        Includes(NormalizedHeader[mapping[field]],
                                 COLUMN_PATTERNS[field][k])

\* "Total Quotes Sent" contains the first pattern of quotes and stands first;
\* "Quote" equals the fifth pattern and is the header mapped.
C17_Witness ==
    /\ DetectDone
    /\ Len(headers) >= 2
    /\ headers[1] = <<"T","o","t","a","l"," ","Q","u","o","t","e","s"," ","S","e","n","t">>
    /\ headers[2] = <<"Q","u","o","t","e">>
    /\ Mapped("quotes")
    /\ mapping["quotes"] = <<"Q","u","o","t","e">>

\* C18: on the headers Campaign, Spend, Leads, Quotes, Sales and p, where p
\* is a candidate pattern of an optional field, that field is mapped to p.
C18_EveryOptionalCandidateRecognised ==
    DetectDone =>
        \A i \in 1..Len(OptionalFields) :
            \A k \in 1..Len(COLUMN_PATTERNS[OptionalFields[i]]) :
                headers = Append(RequiredHeaders, COLUMN_PATTERNS[OptionalFields[i]][k])
                    => /\ Mapped(OptionalFields[i])
                       /\ mapping[OptionalFields[i]] = COLUMN_PATTERNS[OptionalFields[i]][k]

----------------------------------------------------------------------------
(* Claims about the range of the rates and the name of the global aggregate *)

\* each percentage field with the totals it is the ratio of
PercentageOf ==
    [quoteRate |-> <<"quotes", "leads">>,
     quoteToClose |-> <<"sales", "quotes">>,
     closeRate |-> <<"sales", "leads">>,
     clickToLead |-> <<"leads", "clicks">>,
     clickToClose |-> <<"sales", "clicks">>,
     contactRate |-> <<"contacted", "leads">>,
     inboundCallRate |-> <<"calls", "leads">>,
     ctr |-> <<"clicks", "impressions">>]

CountFields ==
    {"spend", "leads", "quotes", "sales", "clicks", "impressions", "contacted",
     "calls", "policyItems", "premium", "quoteCpa", "policyCpa"}

\* no row holds a negative number
NonNegativeCounts ==
    \A i \in RowIndices :
        \A f \in CountFields \cap DOMAIN metricRows[i] : Sign(metricRows[i][f]) >= 0

\* a <= b for finite a and b
NumLeq(a, b) == a.n * b.d <= b.n * a.d

\* C19 as stated: for rows with non-negative counts, every percentage field
\* of every EntityMetrics is, when defined, finite and between 0 and 100.
C19_PercentagesWithinHundred ==
    (MetricsDone /\ NonNegativeCounts) =>
        \A a \in Aggregates :
            \A p \in DOMAIN PercentageOf :
                a[1][p] # Undefined =>
                    /\ IsFinite(a[1][p])
                    /\ NumLeq(Zero, a[1][p])
                    /\ NumLeq(a[1][p], Int2Num(100))

\* C19 as amended: for rows with non-negative counts, every percentage field
\* is, when defined, finite and not negative, and it is at most 100 whenever
\* the total in its numerator does not exceed the total in its denominator.
C19_PercentagesFiniteNonNegative ==
    (MetricsDone /\ NonNegativeCounts) =>
        \A a \in Aggregates :
            \A p \in DOMAIN PercentageOf :
                a[1][p] # Undefined =>
                    /\ IsFinite(a[1][p])
                    /\ NumLeq(Zero, a[1][p])
                    /\ NumLeq(SumOver(a[2], PercentageOf[p][1]),
                              SumOver(a[2], PercentageOf[p][2]))
                          => NumLeq(a[1][p], Int2Num(100))

\* Rows without negative numbers giving a contact rate of 0.5, a
\* quote-to-close rate of 120 (60 sales on 50 quotes) and, in another
\* aggregate, a quote rate of 0 on no leads.
C19_Witness ==
    /\ MetricsDone
    /\ NonNegativeCounts
    /\ \E a \in Aggregates :
          /\ a[1].contactRate = Rat(1, 2)
          /\ a[1].quoteToClose = Int2Num(120)
    /\ \E a \in Aggregates :
          /\ a[2] # {}
          /\ a[1].leads = Zero
          /\ a[1].quoteRate = Zero

\* C20: the global aggregate is the one EntityMetrics named "Total": its
\* entity is "Total", its base totals are those of the full row set, and no
\* element of the entities list is named "Total".
C20_TotalIsDistinguished ==
    MetricsDone =>
        /\ metricsResult.global.entity = <<"T","o","t","a","l">>
        /\ \A f \in {"spend", "leads", "quotes", "sales"} :
              metricsResult.global[f] = SumOver(RowIndices, f)
        /\ \A k \in 1..Len(EntityResults) : EntityResults[k].entity # <<"T","o","t","a","l">>

----------------------------------------------------------------------------
\* Claims about the uploaded-file store

\* a parse in flight ends in this step: the only place addFile is called
ParseEnds == BagCardinality(parsing') < BagCardinality(parsing)

\* C12: the collection never holds more than 3 files, and a parse that
\* ends while 3 files are present, whether it calls addFile or fails, leaves
\* the files and their order as they were.
C12_AtMostThreeFiles ==
    /\ [](Len(uploadedFiles) <= 3)
    /\ [][(Len(uploadedFiles) = 3 /\ ParseEnds)
            => uploadedFiles' = uploadedFiles]_vars

\* three files are present, untouched, after an addFile was turned away
C12_Witness ==
    /\ warned
    /\ Len(uploadedFiles) = 3
    /\ FileIds(uploadedFiles) = {0, 1, 2}

\* the rows of all files, and the number of them
TotalRows == SumLens(uploadedFiles)

\* the position in the combined rows of row j of file i
Position(i, j) == SumLens(SubSeq(uploadedFiles, 1, i - 1)) + j

\* the rows of a list whose entity is missing under a mapping, in the
\* words of the claim
MissingEntityRows(rows, m) ==
    {j \in 1..Len(rows) : EntityUnresolved(rows[j], m)}

\* the rows of a list the normaliser drops under a mapping
DroppedRows(rows, m) ==
    {j \in 1..Len(rows) : EntityDropReason(rows[j], m)}

\* C13: in merge mode the rows handed on are the files' rows in upload
\* order, and the number of normalised rows is the number of all rows less
\* those whose entity is missing under the first file's mapping.
C13_MergeRowCount ==
    (multiFileMode = "merge" /\ Len(uploadedFiles) >= 1) =>
        /\ Len(data) = TotalRows
        /\ \A i \in 1..Len(uploadedFiles) :
              \A j \in 1..Len(uploadedFiles[i].data) :
                  data[Position(i, j)] = uploadedFiles[i].data[j]
        /\ Len(normalizedData) =
              TotalRows
              - Cardinality(MissingEntityRows(data, uploadedFiles[1].mapping))

\* the sum of the spend of the rows of a list with index in I, under a
\* mapping
RECURSIVE SpendOver(_, _, _)
SpendOver(rows, m, I) ==
    IF I = {} THEN Zero
    ELSE LET i == CHOOSE j \in I : TRUE
         IN  NumAdd(RequiredValue(rows[i], m, "spend"),
                    SpendOver(rows, m, I \ {i}))

KeptRows(rows, m) == (1..Len(rows)) \ DroppedRows(rows, m)

\* the entity strings of the rows a file keeps under a mapping
KeptEntities(rows, m) ==
    {Trim(CellToString(Cell(rows[j], m["entity"]))) : j \in KeptRows(rows, m)}

----------------------------------------------------------------------------
(* The Metric Engine on rows with cents *)

\* The numeric parts of rows whose spend is a decimal fraction, as the
\* normaliser parses "0.1", "0.2" and "0.3", and of a row of whole numbers.
CentProfiles ==
    {[spend |-> Rat(1, 10), leads |-> Int2Num(1), quotes |-> Int2Num(1),
      sales |-> Zero],
     [spend |-> Rat(1, 5), leads |-> Int2Num(2), quotes |-> Int2Num(1),
      sales |-> Int2Num(1)],
     [spend |-> Rat(3, 10), leads |-> Int2Num(3), quotes |-> Int2Num(2),
      sales |-> Int2Num(1)],
     [spend |-> Int2Num(10), leads |-> Int2Num(5), quotes |-> Int2Num(2),
      sales |-> Int2Num(1)]}

CentRowPool ==
    {[f \in {"entity"} \cup DOMAIN p |-> IF f = "entity" THEN e ELSE p[f]] :
        e \in {<<"A">>, <<"B">>}, p \in CentProfiles}

MaxCentRows == 3

CentRowLists == UNION {[1..n -> CentRowPool] : n \in 0..MaxCentRows}

CentsInit ==
    /\ metricRows \in CentRowLists
    /\ metricsResult = NoResult
    /\ metricsPc = "input"
    /\ DetectIdle
    /\ NormIdle
    /\ TransformIdle
    /\ StoreIdle
    /\ ScanIdle

SpecCents == CentsInit /\ [][MetricsNext]_vars

BaseTotals == {"spend", "leads", "quotes", "sales"}

\* the sum of one total over the first k per-entity metrics returned
RECURSIVE SumEntities(_, _)
SumEntities(k, f) ==
    IF k = 0 THEN Zero
    ELSE NumAdd(SumEntities(k - 1, f), EntityResults[k][f])

\* every input row belongs to exactly one of the per-entity metrics returned
EachRowInOneEntity ==
    \A i \in RowIndices :
        Cardinality({k \in 1..Len(EntityResults) :
                        EntityResults[k].entity = metricRows[i].entity}) = 1

GlobalIsSumOfEntities ==
    \A f \in BaseTotals :
        metricsResult.global[f] = SumEntities(Len(EntityResults), f)

WholeNumberRows ==
    \A i \in RowIndices : \A f \in BaseTotals :
        f \in DOMAIN metricRows[i] =>
            metricRows[i][f].k = "fin" /\ metricRows[i][f].d = 1

\* C21 as stated: for every list of normalised rows each base total of the
\* global metrics equals the sum of that total over the per-entity metrics,
\* and every row is counted in exactly one entity.
C21_GlobalEqualsSumOfEntities ==
    MetricsDone => GlobalIsSumOfEntities /\ EachRowInOneEntity

\* C21: every row is counted in exactly one entity, and when the base
\* values of the rows are whole numbers each base total of the global
\* metrics equals the sum of that total over the per-entity metrics.
C21_WholeNumberTotalsAgree ==
    MetricsDone =>
        /\ EachRowInOneEntity
        /\ WholeNumberRows => GlobalIsSumOfEntities

\* Rows "A" 10, "B" 10, "A" 10: two entities with spend 20 and 10, global 30.
C21_Witness ==
    /\ MetricsDone
    /\ Len(metricRows) = 3
    /\ WholeNumberRows
    /\ Len(EntityResults) = 2
    /\ EntityResults[1].spend = Int2Num(20)
    /\ EntityResults[2].spend = Int2Num(10)
    /\ metricsResult.global.spend = Int2Num(30)
    /\ metricsResult.global.leads = Int2Num(15)

\* Rows "A" 0.1, "B" 0.2, "B" 0.3: the global spend is the double above
\* 0.6, the sum of the entity spends 0.1 and 0.5 is 0.6.
C21_RoundingWitness ==
    /\ MetricsDone
    /\ Len(metricRows) = 3
    /\ metricRows[1].spend = Rat(1, 10)
    /\ metricRows[2].spend = Rat(1, 5)
    /\ metricRows[3].spend = Rat(3, 10)
    /\ Len(EntityResults) = 2
    /\ EntityResults[2].spend = Rat(1, 2)
    /\ metricsResult.global.spend # SumEntities(2, "spend")

----------------------------------------------------------------------------
(* Claims about field type detection *)

\* digits with an optional decimal point
PurelyNumeric(s) ==
    /\ \E i \in 1..Len(s) : IsDigit(s[i])
    /\ \A i \in 1..Len(s) : IsDigit(s[i]) \/ s[i] = "."
    /\ Cardinality({i \in 1..Len(s) : s[i] = "."}) <= 1

\* C22: a purely numeric string is never a date under auto:
\* parseDateWithFormat(v, 'auto') returns null for it, and detectFieldType
\* over purely numeric samples never returns date.
C22_NumericStringIsNoDate ==
    /\ (/\ Returned
        /\ fnCall.fn = "parseDateWithFormat"
        /\ fnCall.format = "auto"
        /\ PurelyNumeric(fnCall.value)) => fnResult = Null
    /\ (/\ Returned
        /\ fnCall.fn = "detectFieldType"
        /\ \A i \in 1..Len(fnCall.samples) :
              fnCall.samples[i].t = "string"
              /\ PurelyNumeric(fnCall.samples[i].s)) => fnResult.type # "date"

\* Three samples "1.5" and three "185": detected as number, confidence 1.
C22_Witness ==
    /\ Returned
    /\ fnCall.fn = "detectFieldType"
    /\ Len(fnCall.samples) = 6
    /\ \A i \in 1..6 : PurelyNumeric(fnCall.samples[i].s)
    /\ fnResult = [type |-> "number", confidence |-> Int2Num(1)]

\* the type the thresholds give, for one set of natively accepted strings
TypeByThresholds(samples, nativeDates) ==
    LET validSamples == validSamplesOf(samples)
        total == Len(validSamples)
    IN  IF total > 0 /\ 10 * dateMatchesOf(validSamples, nativeDates) >= 7 * total
        THEN "date"
        ELSE IF total > 0 /\ 10 * numberMatchesOf(validSamples) >= 7 * total
        THEN "number"
        ELSE "text"

TypeFollowsThresholds ==
    (Returned /\ fnCall.fn = "detectFieldType") =>
        \E nativeDates \in SUBSET NativeCandidates :
            fnResult.type = TypeByThresholds(fnCall.samples, nativeDates)

\* C23: over the usable samples detectFieldType returns date when at least
\* 70% parse as a date, else number when at least 70% parse as a number,
\* else text; whenever it falls back to text the confidence is 0.
C23_ThresholdsAndTextConfidence ==
    /\ TypeFollowsThresholds
    /\ (Returned /\ fnCall.fn = "detectFieldType" /\ fnResult.type = "text")
          => fnResult.confidence = Zero

----------------------------------------------------------------------------
\* Claims about validation and the chunked scan

\* the scans whose promise has resolved
ResolvedScans == {s \in ScanIds : scans[s].pc \in {"resolved", "delivered"}}

\* the scans that were requested
RequestedScans == {s \in ScanIds : scans[s].pc # "none"}

\* the cell of row r under the column of a mapped entry
ScanCell(r, entry) == RowCell(scanData[r], entry.column)

\* a cell that holds one of the absent markers
HoldsAbsentMarker(value) ==
    /\ ~IsEmptyCell(value)
    /\ IsAbsentMarker(Trim(CellToString(value)))

\* the rows in which a cell other than an absent marker fails under the
\* transformations of scan s
RowsFailingBesideMarkers(s) ==
    {r \in 1..Len(scanData) :
        \E k \in 1..Len(MappedEntries(ScanEntries)) :
            /\ ~HoldsAbsentMarker(ScanCell(r, MappedEntries(ScanEntries)[k]))
            /\ FailsTransformation(
                  ScanCell(r, MappedEntries(ScanEntries)[k]),
                  TransformFor(scans[s].transforms,
                               MappedEntries(ScanEntries)[k].column),
                  engineDates)}

\* C24: a cell holding "n/a" or "-" never increases a field's errorCount
\* and never makes its row invalid, whatever transformation is configured:
\* the errors counted under a field are the failing cells that hold no
\* absent marker, and the invalid rows are the rows with such a cell.
C24_AbsentMarkersAreNoErrors ==
    \A s \in ResolvedScans :
        /\ \A k \in 1..Len(MappedEntries(ScanEntries)) :
              scans[s].result.fieldResults[MappedEntries(ScanEntries)[k].field]
                    .errorCount
                 = Cardinality(
                      {r \in 1..Len(scanData) :
                          /\ ~HoldsAbsentMarker(
                                 ScanCell(r, MappedEntries(ScanEntries)[k]))
                          /\ FailsTransformation(
                                 ScanCell(r, MappedEntries(ScanEntries)[k]),
                                 TransformFor(scans[s].transforms,
                                     MappedEntries(ScanEntries)[k].column),
                                 engineDates)})
        /\ scans[s].result.invalidRows = Cardinality(RowsFailingBesideMarkers(s))

\* the rows examined so far are the first processedRows rows, in input
\* order
ExaminedInOrder(s) ==
    scans[s].examined = [k \in 1..scans[s].processedRows |-> k]

\* the values passed to onProgress never decrease and stay within 0..100
ReportsMonotone(s) ==
    /\ \A k \in 1..Len(scans[s].reports) : scans[s].reports[k] \in 0..100
    /\ \A k \in 1..(Len(scans[s].reports) - 1) :
          scans[s].reports[k] <= scans[s].reports[k + 1]

\* the last value reported is 100
LastReportIs100(s) ==
    /\ scans[s].reports # <<>>
    /\ scans[s].reports[Len(scans[s].reports)] = 100

\* every scan that was requested resolves
EveryScanCompletes ==
    \A s \in ScanIds : (scans[s].pc # "none") ~> (s \in ResolvedScans)

\* C25, as stated: for every data size and every chunk size >= 1 the
\* chunks are processed in input order, the values reported never decrease
\* and stay within 0..100, the scan completes, and the last value reported
\* before the promise resolves is 100.
C25_EveryScanReports100 ==
    /\ [](\A s \in RequestedScans : ExaminedInOrder(s) /\ ReportsMonotone(s))
    /\ [](\A s \in ResolvedScans : LastReportIs100(s))
    /\ EveryScanCompletes

\* C25, amended: the same for data of at least one row; for data without
\* rows the scan completes and no value is reported at all.
C25_NonEmptyScanReports100 ==
    /\ [](\A s \in RequestedScans : ExaminedInOrder(s) /\ ReportsMonotone(s))
    /\ [](\A s \in ResolvedScans :
             /\ Len(scanData) >= 1 => LastReportIs100(s)
             /\ Len(scanData) = 0 => scans[s].reports = <<>>
             /\ scans[s].processedRows = Len(scanData))
    /\ EveryScanCompletes

\* a scan of two rows in chunks of one has resolved after reporting 50 and
\* 100
C25_Witness ==
    \E s \in ResolvedScans :
        /\ scans[s].chunkSize = 1
        /\ scans[s].examined = <<1, 2>>
        /\ scans[s].reports = <<50, 100>>

\* a scan of no rows has resolved and nothing was reported
C25_EmptyWitness ==
    \E s \in ResolvedScans : scanData = <<>> /\ scans[s].reports = <<>>

\* the summary stored for the file scanned
StoredSummary == uploadedFiles[1].validationSummary

\* a step of one scan leaves the locals of the other alone, and a scan that
\* waits either waits on or has resolved: nothing cancels it
NoScanIsCancelled ==
    [][\A s \in ScanIds :
          /\ scans[s].pc = "waiting" => scans'[s].pc \in {"waiting", "resolved"}
          /\ scans[s].pc = "waiting" /\ scans'[s].pc = "waiting"
                /\ Len(scans'[s].reports) = Len(scans[s].reports)
                => scans'[s] = scans[s]
          /\ scans[s].pc = "resolved" => scans'[s].pc \in {"resolved", "delivered"}]_vars

\* every scan requested runs all its chunks, resolves and has its summary
\* delivered
EveryScanIsDelivered ==
    \A s \in ScanIds :
        (scans[s].pc # "none")
            ~> (/\ scans[s].pc = "delivered"
                /\ scans[s].processedRows = Len(scanData))

\* C26: a scan in flight is never cancelled and nothing tells an older
\* scan from a newer one: each scan requested runs all its chunks, keeps
\* reporting, resolves and is delivered, and the summary stored is the one
\* of the scan delivered last, whichever scan was requested last.
C26_NoCancellationNoGuard ==
    /\ NoScanIsCancelled
    /\ [](deliveries # <<>>
            => StoredSummary = scans[deliveries[Len(deliveries)]].result)
    /\ EveryScanIsDelivered

\* both scans ran interleaved, the newer one was delivered first, and the
\* summary stored is the one of the older scan, which differs
C26_Witness ==
    /\ deliveries = <<2, 1>>
    /\ Len(scans[1].reports) = 2
    /\ StoredSummary = scans[1].result
    /\ scans[1].result # scans[2].result

\* the rows with a mapped, non-empty cell that fails its transformation,
\* which is not text
InvalidScanRows(s) ==
    {r \in 1..Len(scanData) :
        \E k \in 1..Len(ScanEntries) :
            /\ ScanEntries[k].column # <<>>
            /\ ~IsEmptyCell(ScanCell(r, ScanEntries[k]))
            /\ TransformFor(scans[s].transforms, ScanEntries[k].column).type
                  # "text"
            /\ Transformed(ScanCell(r, ScanEntries[k]),
                           TransformFor(scans[s].transforms,
                                        ScanEntries[k].column),
                           engineDates) = Null}

\* the summary the synchronous generateValidationSummary returns for the
\* data, mapping and transforms of scan s
SynchronousSummary(s) ==
    generateValidationSummary(scanData, ScanEntries, scans[s].transforms,
                              engineDates)

\* C27: for the same data, mapping and transforms and any chunk size, the
\* scan resolves to the summary generateValidationSummary returns; in both,
\* validRows + invalidRows = totalRows, and the invalid rows are the rows
\* in which a mapped, non-empty cell fails its non-text transformation.
C27_ScanAgreesWithSummary ==
    \A s \in ResolvedScans :
        \E summary \in {SynchronousSummary(s)},
           invalid \in {Cardinality(InvalidScanRows(s))} :
            /\ scans[s].result = summary
            /\ summary.validRows + summary.invalidRows = summary.totalRows
            /\ summary.totalRows = Len(scanData)
            /\ summary.invalidRows = invalid
            /\ scans[s].result.invalidRows = Cardinality({r \in 1..Len(scanData) :
                                                           scans[s].rowErrors[r]})
            /\ \A r \in 1..Len(scanData) :
                  scans[s].rowErrors[r] <=> r \in InvalidScanRows(s)

\* a scan in chunks of one has resolved with one valid and one invalid row
C27_Witness ==
    \E s \in ResolvedScans :
        /\ scans[s].chunkSize = 1
        /\ Len(scanData) = 2
        /\ scans[s].result.validRows = 1
        /\ scans[s].result.invalidRows = 1
        /\ scans[s].result.fieldResults["spend"].errorCount = 1
----------------------------------------------------------------------------
\* The uploaded-file collection under concurrent parses, and the mode

\* the positions of the collection that hold a file of a name held earlier
DuplicateFileNames ==
    {j \in 1..Len(uploadedFiles) :
        \E i \in 1..(j - 1) : uploadedFiles[i].fileName = uploadedFiles[j].fileName}

\* C28: no two files of the uploaded-file collection share a fileName,
\* whatever the order of drops, file selections and parse completions, a
\* file named twice in one drop or selected again during its first parse
\* included.
C28_NoDuplicateFileNames == DuplicateFileNames = {}

\* C29: multiFileMode is merge or compare only while at least two files are
\* uploaded; with fewer than two files it is null.
C29_ModeOnlyWithTwoFiles ==
    /\ multiFileMode \in {"merge", "compare"} => Len(uploadedFiles) >= 2
    /\ Len(uploadedFiles) < 2 => multiFileMode = "null"

\* C30: whatever the navigation between the upload, mapping, configuration
\* and dashboard pages, the dashboard is never shown while
\* validateRequiredFields reports the active mapping invalid.
C30_DashboardNeedsValidMapping ==
    location = "/dashboard" => validateRequiredFields(contextMapping)

====
